---------------------------- MODULE Spec2Model ----------------------------
(***************************************************************************)
(* Model of the PPT generation core of backend/agents/ppt_generator_agent  *)
(* (class PPTContentGenerator): classification of an instruction into one  *)
(* of five modes, the five extractors, slide assembly and the checks made  *)
(* on the assembled deck (specification Spec).  SpecImages continues with  *)
(* the image steps of backend/api/main.py and the writer of                *)
(* backend/utils/ppt_creator.py, on decks returned for MixedControl         *)
(* instructions; SpecTimetable is the row-based upload_timetable of        *)
(* backend/api/main.py and its calendar store.                             *)
(*                                                                         *)
(* An instruction is a sequence of lexical tokens.  A token stands for the *)
(* piece of text the regular expressions and substring tests of the source *)
(* tell apart ("Slide 2:", "Slide titles:", "Content:", a word, a newline, *)
(* ...).  Two tokens that follow each other are separated by one blank     *)
(* unless one of them is the newline token.  The field up says that the    *)
(* piece is written in capitals: str.lower() and re.IGNORECASE are what   *)
(* make such a piece match.                                                *)
(***************************************************************************)
EXTENDS Integers, Sequences, FiniteSets, TLC

VARIABLES call, user_input, pc, detected_mode, parsed, slides, cursor, llm_calls, failed_calls, error,
          image_requests, image_path, preferred_image_url, pictures, removed,
          events, response

\* the state of the image steps of api/main.py and of the writer of utils/ppt_creator.py
api_vars == <<image_requests, image_path, preferred_image_url, pictures, removed>>

\* the state of the calendar store of api/main.py
cal_vars == <<events, response>>

\* the state of generate_slide_content apart from the deck and the position
gen_vars == <<call, user_input, detected_mode, parsed, cursor, llm_calls, failed_calls, error>>

vars == <<call, user_input, pc, detected_mode, parsed, slides, cursor, llm_calls, failed_calls, error,
          api_vars, cal_vars>>

-----------------------------------------------------------------------------
(* Bounds of the model *)

\* the slide numbers written in an instruction are at most MaxSlides
MaxSlides == 3

-----------------------------------------------------------------------------
(* Tokens and texts *)

Tok(k, n, m) == [k |-> k, n |-> n, m |-> m, up |-> FALSE]

T(k) == Tok(k, 0, 0)

NL == T("nl")

Upper(tok) == [tok EXCEPT !.up = TRUE]

\* str.lower() on one token and on a text
LowerTok(tok) == [tok EXCEPT !.up = FALSE]

Lower(text) == [i \in DOMAIN text |-> LowerTok(text[i])]

\* the text written in capitals; white space, digits and punctuation have no case
Caseless == {"nl", "ws", "dash", "bullet", "dot"}

UpperText(text) == [i \in DOMAIN text |-> IF text[i].k \in Caseless THEN text[i] ELSE Upper(text[i])]

\* The lower-case substrings a token of kind k spells out.
Feat(k) ==
    CASE k = "exact"      -> {"exact content", "use exact content"}
      [] k = "exactc"     -> {"exact content", "use exact content", "use exact content:", "content:"}
      [] k = "content"    -> {"content:"}
      [] k = "nomod"      -> {"do not modify"}
      [] k = "dontmod"    -> {"don't modify"}
      [] k = "sinstr"     -> {"slide instructions:"}
      [] k = "implace"    -> {"image placement:"}
      [] k = "stitles"    -> {"slide titles:", "re:slide titles :", "re:slide titles:", "titles"}
      [] k = "stitles_sp" -> {"re:slide titles :", "titles"}
      [] k = "sstruct"    -> {"slide structure:", "structure"}
      [] k = "usedef"     -> {"use a default", "default slide structure", "structure"}
      [] k = "genall"     -> {"generate all slide titles", "generate ", "titles"}
      [] k = "genself"    -> {"generate all content yourself", "generate ", "content"}
      [] k = "gencontent" -> {"generate content", "generate "}
      [] k = "title"      -> {"title:"}
      [] k = "noimg"      -> {"no image"}
      [] k = "useimg"     -> {"use image"}
      [] k = "imgmap"     -> {"use image", "use image on slide"}
      [] k = "subject"    -> {"subject:"}
      [] k = "ppton"      -> {"ppt on", "on "}
      [] k = "dot"        -> {"."}
      [] k = "dash"       -> {"-"}
      [] k = "bullet"     -> {"bullet-dot"}
      [] k = "slide"      -> {"slide n:"}
      [] k = "intro"      -> {"intro"}
      [] k = "arch"       -> {"architecture"}
      [] OTHER            -> {}

\* a case-sensitive substring test: "f in text"
In(f, text) == \E i \in DOMAIN text : ~text[i].up /\ f \in Feat(text[i].k)

\* re.search(f, text, re.IGNORECASE) for a pattern that lies within one token
Search(f, text) == \E i \in DOMAIN text : f \in Feat(text[i].k)

IsSpace(tok) == tok.k \in {"nl", "ws"}

Min(S) == CHOOSE x \in S : \A y \in S : x <= y

Max(S) == CHOOSE x \in S : \A y \in S : x >= y

\* index of the first token from position from on that spells f (any case), Len+1 if none
FindFrom(f, text, from) ==
    LET I == {i \in from..Len(text) : f \in Feat(text[i].k)}
    IN  IF I = {} THEN Len(text) + 1 ELSE Min(I)

\* index of the first token at or after from that is not white space, Len+1 if none
SkipSpace(text, from) ==
    LET I == {i \in from..Len(text) : ~IsSpace(text[i])}
    IN  IF I = {} THEN Len(text) + 1 ELSE Min(I)

\* index of the first newline at or after from, Len+1 if none
LineEnd(text, from) ==
    LET I == {i \in from..Len(text) : text[i].k = "nl"}
    IN  IF I = {} THEN Len(text) + 1 ELSE Min(I)

Slice(text, a, b) == IF a > b THEN <<>> ELSE SubSeq(text, a, b)

\* str.strip() and str.rstrip(): white space at the ends is dropped
RECURSIVE RStrip(_)
RStrip(text) ==
    IF text # <<>> /\ IsSpace(text[Len(text)]) THEN RStrip(SubSeq(text, 1, Len(text) - 1)) ELSE text

RECURSIVE LStrip(_)
LStrip(text) ==
    IF text # <<>> /\ IsSpace(text[1]) THEN LStrip(Tail(text)) ELSE text

Strip(text) == RStrip(LStrip(text))

-----------------------------------------------------------------------------
(* _detect_ppt_mode *)

DetectNoLower(prompt) ==
    IF prompt = <<>> THEN "mode_1"
    ELSE IF /\ In("exact content", prompt)
            /\ (In("do not modify", prompt) \/ In("don't modify", prompt))
            /\ In("content:", prompt)
         THEN "mode_3"
    ELSE IF In("slide instructions:", prompt) THEN "mode_5"
    ELSE IF In("image placement:", prompt) THEN "mode_4"
    ELSE IF In("re:slide titles :", prompt) \/ In("slide structure:", prompt) THEN "mode_2"
    ELSE "mode_1"

DetectPptMode(prompt) ==
    IF prompt = <<>> THEN "mode_1"
    ELSE LET prompt_lower == Lower(prompt)
             has_exact_marker == In("use exact content", prompt_lower) \/ In("exact content", prompt_lower)
             has_no_modify == In("do not modify", prompt_lower) \/ In("don't modify", prompt_lower)
             has_content_sections ==
                 \/ In("content:", prompt_lower)
                 \/ \E i, j \in DOMAIN prompt_lower :
                        i < j /\ prompt_lower[i].k = "slide" /\ "content:" \in Feat(prompt_lower[j].k)
         IN  IF has_exact_marker /\ has_no_modify /\ has_content_sections THEN "mode_3"
             ELSE IF In("slide instructions:", prompt_lower) THEN "mode_5"
             ELSE IF In("image placement:", prompt_lower) THEN "mode_4"
             ELSE IF In("re:slide titles :", prompt_lower) \/ In("slide structure:", prompt_lower)
                  THEN "mode_2"
             ELSE IF In("default slide structure", prompt_lower) \/ In("use a default", prompt_lower)
                     \/ In("generate all slide titles", prompt_lower)
                     \/ In("generate all content yourself", prompt_lower)
                  THEN "mode_1"
             ELSE "mode_1"

-----------------------------------------------------------------------------
(* The fields every extractor reads: NUMBER, TOPIC, SUBJECT *)

DefaultNumber == 8

GeneralTopic == <<T("general_topic")>>

GeneralSubject == <<T("general")>>

NoError == [kind |-> "none", expected |-> 0, found |-> 0]

Err(kind, expected, found) == [kind |-> kind, expected |-> expected, found |-> found]

\* "<N>-slide" / "<N> slide" (token cnt), then "create <N>  slides" (cnt_ws, m = 1),
\* then "<N>  slides" (cnt_ws); 8 when none is found
ExtractNumber(prompt) ==
    LET P1 == {i \in DOMAIN prompt : prompt[i].k = "cnt"}
        P2 == {i \in DOMAIN prompt : prompt[i].k = "cnt_ws" /\ prompt[i].m = 1}
        P3 == {i \in DOMAIN prompt : prompt[i].k = "cnt_ws"}
    IN  IF P1 # {} THEN prompt[Min(P1)].n
        ELSE IF P2 # {} THEN prompt[Min(P2)].n
        ELSE IF P3 # {} THEN prompt[Min(P3)].n
        ELSE DefaultNumber

\* "ppt on X" then "on X", X running up to the first "." or "Subject:"
TopicAfter(f, prompt) ==
    LET Starts == {i \in DOMAIN prompt :
                     /\ f \in Feat(prompt[i].k)
                     /\ i + 1 <= Len(prompt)
                     /\ \E e \in (i + 2)..Len(prompt) : prompt[e].k \in {"dot", "subject"}
                     /\ prompt[i + 1].k # "dot"}
    IN  IF Starts = {} THEN <<>>
        ELSE LET i == Min(Starts)
                 e == Min({e \in (i + 2)..Len(prompt) : prompt[e].k \in {"dot", "subject"}})
             IN  <<Slice(prompt, i + 1, e - 1)>>

ExtractTopic(prompt) ==
    LET m1 == TopicAfter("ppt on", prompt)
        m2 == TopicAfter("on ", prompt)
    IN  IF m1 # <<>> THEN Strip(m1[1])
        ELSE IF m2 # <<>> THEN Strip(m2[1])
        ELSE GeneralTopic

\* "Subject: X", X running to the end of the line
ExtractSubject(prompt) ==
    LET i == FindFrom("subject:", prompt, 1)
        j == SkipSpace(prompt, i + 1)
    IN  IF i > Len(prompt) \/ j > Len(prompt) THEN GeneralSubject
        ELSE Strip(Slice(prompt, j, LineEnd(prompt, j) - 1))

\* the shape every extractor returns
Request(mode, number, topic, subject) ==
    [mode |-> mode, number |-> number, topic |-> topic, subject |-> subject,
     slide_titles |-> <<>>, exact_content |-> <<>>, image_mappings |-> <<>>,
     slide_instructions |-> <<>>]

NoRequest == Request("none", 0, <<>>, <<>>)

Parsed(req) == [err |-> NoError, req |-> req]

Raised(err) == [err |-> err, req |-> NoRequest]

-----------------------------------------------------------------------------
(* _parse_mode_1 *)

ParseMode1(prompt) ==
    Parsed(Request("mode_1", ExtractNumber(prompt), ExtractTopic(prompt), ExtractSubject(prompt)))

-----------------------------------------------------------------------------
(* Helpers of the title extractors *)

\* re.finditer(r"Slide\s+(\d+)\s*:\s*(.+)", text): a match starts at a
\* "Slide n:" marker, skips white space (newlines too) and takes the rest of
\* that line as the title; the scan goes on after the match.
RECURSIVE TitleMatches(_, _)
TitleMatches(text, pos) ==
    LET i == FindFrom("slide n:", text, pos)
        j == SkipSpace(text, i + 1)
        e == LineEnd(text, j) - 1
    IN  IF i > Len(text) \/ j > Len(text) THEN <<>>
        ELSE <<[slide_number |-> text[i].n, title |-> RStrip(Slice(text, j, e))]>>
             \o TitleMatches(text, e + 1)

\* list.sort(key = slide_number): stable
RECURSIVE SortFrom(_, _, _)
SortFrom(s, n, top) ==
    IF n > top THEN <<>>
    ELSE SelectSeq(s, LAMBDA x : x.slide_number = n) \o SortFrom(s, n + 1, top)

SortBySlideNumber(s) ==
    IF s = <<>> THEN <<>>
    ELSE SortFrom(s, Min({s[i].slide_number : i \in DOMAIN s}), Max({s[i].slide_number : i \in DOMAIN s}))

\* "Remove duplicates (keep first occurrence)"
RECURSIVE Unique(_, _)
Unique(s, seen) ==
    IF s = <<>> THEN <<>>
    ELSE IF s[1].slide_number \in seen THEN Unique(Tail(s), seen)
    ELSE <<s[1]>> \o Unique(Tail(s), seen \cup {s[1].slide_number})

MaxSlideNum(s) == Max({s[i].slide_number : i \in DOMAIN s})

-----------------------------------------------------------------------------
(* _parse_mode_2 *)

\* the text after "Slide titles:" up to "Generate ..." or the end
TitlesSection(prompt) ==
    LET i == FindFrom("re:slide titles:", prompt, 1)
        g == FindFrom("generate ", prompt, i + 1)
    IN  IF i > Len(prompt) THEN <<>> ELSE Strip(Slice(prompt, i + 1, g - 1))

\* the first of two lists that is not empty
OrElse(a, b) == IF a # <<>> THEN a ELSE b

\* "Strategy 1": the titles of the section; "Strategy 2": those of the whole
\* prompt, without the matches that hold the section header itself
Mode2Titles(prompt) ==
    OrElse(TitleMatches(TitlesSection(prompt), 1),
           SelectSeq(TitleMatches(prompt, 1),
                     LAMBDA t : ~In("titles", Lower(t.title)) /\ ~In("structure", Lower(t.title))))

\* the count as declared, never raised to the numbers of the items
ReconciledAsDeclared(number, items) == number

\* "Determine actual number from extracted titles": number = max(number, max_slide_num)
Reconciled(number, items) ==
    IF items # <<>> /\ MaxSlideNum(items) > number THEN MaxSlideNum(items) ELSE number

\* "CRITICAL VALIDATION: Must have exactly 'number' titles"; number is the reconciled count
Mode2Validated(prompt, number, slide_titles) ==
    IF slide_titles # <<>> /\ Len(slide_titles) < number
    THEN Raised(Err("mode2_count", number, Len(slide_titles)))
    ELSE IF slide_titles = <<>>
    THEN Raised(Err("mode2_no_titles", 0, 0))
    ELSE Parsed([Request("mode_2", number, ExtractTopic(prompt), ExtractSubject(prompt))
                    EXCEPT !.slide_titles =
                        IF Len(slide_titles) > number
                        THEN SelectSeq(slide_titles, LAMBDA t : t.slide_number <= number)
                        ELSE slide_titles])

Mode2Reconciled(prompt, slide_titles) ==
    Mode2Validated(prompt, Reconciled(ExtractNumber(prompt), slide_titles), slide_titles)

ParseMode2(prompt) ==
    Mode2Reconciled(prompt, Unique(SortBySlideNumber(Mode2Titles(prompt)), {}))

-----------------------------------------------------------------------------
(* _parse_mode_4 *)

\* r"Slide\s+structure:\s*(.*?)(?:\n\nImage\s+placement:|Image\s+placement:|$)"
\* and the two patterns tried after it: the text after the first
\* "Slide structure:" up to the next "Image placement:" or the end
SectionUpToImagePlacement(f, prompt) ==
    LET i == FindFrom(f, prompt, 1)
        e == FindFrom("image placement:", prompt, i + 1)
    IN  IF i > Len(prompt) THEN <<>> ELSE Slice(prompt, i + 1, e - 1)

\* r"Image\s+placement:\s*(.*?)(?:\n\n|$)": the text after "Image placement:"
\* up to the first empty line
BlankLineFrom(text, from) ==
    LET I == {i \in from..(Len(text) - 1) : text[i].k = "nl" /\ text[i + 1].k = "nl"}
    IN  IF I = {} THEN Len(text) + 1 ELSE Min(I)

ImageSection(prompt) ==
    LET i == FindFrom("image placement:", prompt, 1)
        j == SkipSpace(prompt, i + 1)
    IN  IF i > Len(prompt) THEN <<>> ELSE Slice(prompt, j, BlankLineFrom(prompt, j) - 1)

\* re.finditer(r"Use\s+Image\s+(\d+)\s+on\s+Slide\s+(\d+)", image_text)
ImageMatches(text) ==
    LET hits == SelectSeq(text, LAMBDA t : t.k = "imgmap")
    IN  [i \in DOMAIN hits |-> [image_number |-> hits[i].n, slide_number |-> hits[i].m]]

\* the titles of the "Slide structure:" section, else those of the "Slide
\* titles:" section, else those between "Slide structure:" and "Image placement:"
Mode4Titles(prompt) ==
    OrElse(TitleMatches(SectionUpToImagePlacement("slide structure:", prompt), 1),
           OrElse(TitleMatches(SectionUpToImagePlacement("re:slide titles:", prompt), 1),
                  TitleMatches(SectionUpToImagePlacement("slide structure:", prompt), 1)))

Mode4Request(prompt, slide_titles) ==
    Parsed([Request("mode_4", Reconciled(ExtractNumber(prompt), slide_titles),
                    ExtractTopic(prompt), ExtractSubject(prompt))
                EXCEPT !.slide_titles = slide_titles,
                       !.image_mappings = ImageMatches(ImageSection(prompt))])

ParseMode4(prompt) ==
    Mode4Request(prompt, Unique(SortBySlideNumber(Mode4Titles(prompt)), {}))

-----------------------------------------------------------------------------
(* Blocks and lines *)

SlideMarks(text) == {i \in DOMAIN text : text[i].k = "slide"}

\* the end of the block a "Slide n:" marker at i opens: the token before the
\* next marker, or the end of the text
BlockEnd(text, i) ==
    LET next == {j \in SlideMarks(text) : j > i}
    IN  IF next = {} THEN Len(text) ELSE Min(next) - 1

\* str.split("\n")
RECURSIVE SplitLines(_)
SplitLines(text) ==
    LET e == LineEnd(text, 1)
    IN  IF e > Len(text) THEN <<text>>
        ELSE <<Slice(text, 1, e - 1)>> \o SplitLines(Slice(text, e + 1, Len(text)))

\* re.search(r"Title:\s*([^\n]+)", block): << title >>, or << >> when there is none
BlockTitle(block) ==
    LET t == FindFrom("title:", block, 1)
        j == SkipSpace(block, t + 1)
    IN  IF t > Len(block) \/ j > Len(block) THEN <<>>
        ELSE <<Strip(Slice(block, j, LineEnd(block, j) - 1))>>

\* a content line of the slide: an unmodified string
Str(text) == [t |-> text, cut |-> FALSE]

-----------------------------------------------------------------------------
(* _parse_mode_3 *)

\* one line of a "Content:" section: << >> when it gives no content line
Mode3Line(line) ==
    LET l == Strip(line)
    IN  IF l = <<>> THEN <<>>
        ELSE IF l[1].k = "dash"
             THEN (IF Strip(Tail(l)) = <<>> THEN <<>> ELSE <<Str(Strip(Tail(l)))>>)
        ELSE <<Str(l)>>

RECURSIVE Mode3Bullets(_)
Mode3Bullets(lines) ==
    IF lines = <<>> THEN <<>> ELSE Mode3Line(lines[1]) \o Mode3Bullets(Tail(lines))

\* the content lines of the block's "Content:" section, which begins after marker c
Mode3Content(slide_text, c) ==
    IF c > Len(slide_text) THEN <<>>
    ELSE Mode3Bullets(SplitLines(Slice(slide_text, SkipSpace(slide_text, c + 1), Len(slide_text))))

\* the slide of one "Slide n:" block: << >> when the block is dropped
Mode3Entry(slide_num, title, bullets) ==
    IF title = <<>> \/ bullets = <<>> THEN <<>>
    ELSE <<[slide_number |-> slide_num, title |-> title[1], content |-> bullets]>>

Mode3BlockOf(slide_num, slide_text) ==
    Mode3Entry(slide_num, BlockTitle(slide_text),
               Mode3Content(slide_text, FindFrom("content:", slide_text, 1)))

Mode3Block(prompt, i) == Mode3BlockOf(prompt[i].n, Slice(prompt, i + 1, BlockEnd(prompt, i)))

RECURSIVE Mode3Blocks(_, _)
Mode3Blocks(prompt, pos) ==
    LET i == FindFrom("slide n:", prompt, pos)
    IN  IF i > Len(prompt) THEN <<>>
        ELSE Mode3Block(prompt, i) \o Mode3Blocks(prompt, i + 1)

Mode3Request(prompt, exact_content) ==
    Parsed([Request("mode_3", Reconciled(ExtractNumber(prompt), exact_content),
                    ExtractTopic(prompt), ExtractSubject(prompt))
                EXCEPT !.exact_content = exact_content])

ParseMode3(prompt) == Mode3Request(prompt, SortBySlideNumber(Mode3Blocks(prompt, 1)))

-----------------------------------------------------------------------------
(* _parse_mode_5 *)

\* the lines after "Use EXACT content:" that start with "-" or the bullet dot,
\* up to an image instruction
RECURSIVE Mode5Bullets(_)
Mode5Bullets(lines) ==
    IF lines = <<>> THEN <<>>
    ELSE LET l == Strip(lines[1])
         IN  IF l # <<>> /\ (\/ l[1].k = "slide"
                              \/ "use image" \in Feat(l[1].k)
                              \/ Lower(l) = <<T("noimg")>>) THEN <<>>
             ELSE IF l # <<>> /\ l[1].k \in {"dash", "bullet"} /\ Strip(Tail(l)) # <<>>
                  THEN <<Str(Strip(Tail(l)))>> \o Mode5Bullets(Tail(lines))
             ELSE Mode5Bullets(Tail(lines))

ImageModeNoLock(block) ==
    IF Search("use image", block) THEN "UPLOAD" ELSE "QUERY"

\* "MODE 5 IMAGE MODE DETECTION"
ImageMode(block) ==
    IF Search("use image", block) THEN "UPLOAD"
    ELSE IF In("no image", Lower(block)) THEN "NONE"
    ELSE "QUERY"

\* "BLOCK-BASED EXACT CONTENT EXTRACTION" applies to the block
ExactDeclared(slide_block) ==
    /\ ~In("generate content", Lower(slide_block))
    /\ In("exact content", Lower(slide_block))
    /\ FindFrom("use exact content:", slide_block, 1) <= Len(slide_block)

ExactBullets(slide_block) ==
    IF ExactDeclared(slide_block)
    THEN Mode5Bullets(SplitLines(Slice(slide_block, FindFrom("use exact content:", slide_block, 1) + 1,
                                       Len(slide_block))))
    ELSE <<>>

Instruction(slide_num, title, should_generate, bullets, image_mode, image_num) ==
    [slide_number |-> slide_num, title |-> title, should_generate |-> should_generate,
     exact_content |-> bullets,
     image_number |-> IF image_mode = "UPLOAD" THEN image_num ELSE 0,
     no_image |-> image_mode = "NONE",
     image_mode |-> image_mode]

\* the number of the first "Use Image n" of the block
FirstImage(slide_block) ==
    IF Search("use image", slide_block) THEN slide_block[FindFrom("use image", slide_block, 1)].n ELSE 0

\* the block's entry when an EXACT declaration without bullets is let through
Mode5EntryLenient(slide_block, slide_num, title, bullets) ==
    IF title = <<>> THEN [kind |-> "skipped"]
    ELSE [kind |-> "ok",
          instruction |-> Instruction(slide_num, title[1], In("generate content", Lower(slide_block)),
                                      bullets, ImageMode(slide_block), FirstImage(slide_block))]

\* what becomes of one block: skipped (no title), raise (EXACT declared, no
\* bullet parsed) or the instruction record
Mode5Entry(slide_block, slide_num, title, bullets) ==
    IF title = <<>> THEN [kind |-> "skipped"]
    ELSE IF ExactDeclared(slide_block) /\ bullets = <<>>
    THEN [kind |-> "raise", slide_number |-> slide_num]
    ELSE [kind |-> "ok",
          instruction |-> Instruction(slide_num, title[1], In("generate content", Lower(slide_block)),
                                      bullets, ImageMode(slide_block), FirstImage(slide_block))]

Mode5BlockOf(slide_block, slide_num) ==
    Mode5Entry(slide_block, slide_num, BlockTitle(slide_block), ExactBullets(slide_block))

Mode5Block(text, i) == Mode5BlockOf(Slice(text, i, BlockEnd(text, i)), text[i].n)

\* the blocks in the order of the text, up to and including the first that raises
RECURSIVE Mode5Blocks(_, _)
Mode5Cons(b, text, i) ==
    IF b.kind = "raise" THEN <<b>>
    ELSE IF b.kind = "skipped" THEN Mode5Blocks(text, i + 1)
    ELSE <<b>> \o Mode5Blocks(text, i + 1)

Mode5From(text, i) ==
    IF i > Len(text) THEN <<>> ELSE Mode5Cons(Mode5Block(text, i), text, i)

Mode5Blocks(text, pos) == Mode5From(text, FindFrom("slide n:", text, pos))

Mode5Request(prompt, slide_instructions) ==
    Parsed([Request("mode_5", Reconciled(ExtractNumber(prompt), slide_instructions),
                    ExtractTopic(prompt), ExtractSubject(prompt))
                EXCEPT !.slide_instructions = slide_instructions])

Mode5Result(prompt, blocks) ==
    IF blocks # <<>> /\ blocks[Len(blocks)].kind = "raise"
    THEN Raised(Err("mode5_exact_no_bullets", blocks[Len(blocks)].slide_number, 0))
    ELSE Mode5Request(prompt, SortBySlideNumber([i \in DOMAIN blocks |-> blocks[i].instruction]))

\* the text after "Slide instructions:"
InstructionsText(prompt) ==
    Slice(prompt, FindFrom("slide instructions:", prompt, 1) + 1, Len(prompt))

ParseMode5(prompt) == Mode5Result(prompt, Mode5Blocks(InstructionsText(prompt), 1))

-----------------------------------------------------------------------------
(* Lengths of strings, in characters *)

MaxLen == 140

MaxBullets == 10

TokLen(tok) ==
    CASE tok.k = "long" -> 150
      [] tok.k = "short" -> 4
      [] tok.k = "llm"  -> (IF tok.m = 1 THEN 160 ELSE 100)
      [] tok.k = "fb"   -> 40
      [] tok.k \in {"nl", "ws", "dash", "bullet", "dot"} -> 1
      [] OTHER -> 10

RECURSIVE TextLen(_)
TextLen(text) ==
    IF text = <<>> THEN 0
    ELSE TokLen(text[1]) + (IF Len(text) > 1 THEN 1 ELSE 0) + TextLen(Tail(text))

-----------------------------------------------------------------------------
(* _generate_single_slide_content and _generate_fallback_bullets *)

\* what the text-generation call may answer
Raises == [kind |-> "raise", n |-> 0, long |-> FALSE]

Json(n, long) == [kind |-> "json", n |-> n, long |-> long]

\* the bullets of an answer: bullet 1 is longer than 140 characters when long
LlmContent(r, attempt) ==
    [i \in 1..r.n |-> Str(<<Tok("llm", i + 100 * attempt, IF r.long /\ i = 1 THEN 1 ELSE 0)>>)]

FallbackBullets(title, topic, subject) ==
    [i \in 1..8 |->
        Str(<<Tok("fb", i, 0)>> \o title
            \o (IF i \in {1, 4} THEN topic ELSE IF i \in {2, 8} THEN subject ELSE <<>>))]

FirstN(s, n) == IF Len(s) > n THEN SubSeq(s, 1, n) ELSE s

\* the calls of one slide's generation that raised
FailedCalls(first, retry) ==
    IF first.kind = "raise" THEN 1
    ELSE IF first.kind = "json" /\ first.n < 8 /\ retry.kind = "raise" THEN 1
    ELSE 0

\* answers: first, the answer to the prompt; retry, the answer to the simplified prompt.
\* The function without its outer try/except: an exception leaves it
SingleSlideContentNoCatch(title, topic, subject, first, retry) ==
    IF first.kind # "json" THEN [content |-> <<>>, calls |-> 1, raised |-> TRUE]
    ELSE IF first.n >= 8 THEN [content |-> FirstN(LlmContent(first, 0), 10), calls |-> 1, raised |-> FALSE]
    ELSE IF retry.kind = "raise" THEN [content |-> <<>>, calls |-> 2, raised |-> TRUE]
    ELSE LET content == IF retry.kind = "json" THEN LlmContent(retry, 1) ELSE LlmContent(first, 0)
         IN  [content |-> IF content # <<>> THEN FirstN(content, 10)
                          ELSE FallbackBullets(title, topic, subject),
              calls |-> 2, raised |-> FALSE]

GenerateSingleSlideContent(title, topic, subject, first, retry) ==
    IF first.kind # "json"
    THEN [content |-> FallbackBullets(title, topic, subject), calls |-> 1, raised |-> FALSE]
    ELSE IF first.n >= 8
    THEN [content |-> FirstN(LlmContent(first, 0), 10), calls |-> 1, raised |-> FALSE]
    ELSE IF retry.kind = "raise"
    THEN [content |-> FallbackBullets(title, topic, subject), calls |-> 2, raised |-> FALSE]
    ELSE LET content == IF retry.kind = "json" THEN LlmContent(retry, 1) ELSE LlmContent(first, 0)
         IN  [content |-> IF content # <<>> THEN FirstN(content, 10)
                          ELSE FallbackBullets(title, topic, subject),
              calls |-> 2, raised |-> FALSE]

-----------------------------------------------------------------------------
(* _get_default_slide_titles *)

default_titles ==
    << <<Tok("intro", 101, 0)>>, <<Tok("word", 102, 0), Tok("arch", 102, 0)>>,
       <<Tok("word", 103, 0)>>, <<Tok("word", 104, 0)>>, <<Tok("word", 105, 0)>> >>

KeyConcept(i) == <<Tok("keyconcept", i, 0)>>

DefaultSlideTitles(num_slides) ==
    LET stop == IF num_slides + 1 < Len(default_titles) + 1
                THEN num_slides + 1 ELSE Len(default_titles) + 1
    IN  [i \in 1..(stop - 1) |->
            [slide_number |-> i,
             title |-> IF i <= Len(default_titles) THEN default_titles[i] ELSE KeyConcept(i)]]

-----------------------------------------------------------------------------
(* Slides *)

Slide(number, type, title, content) ==
    [slide_number |-> number, slide_type |-> type, title |-> title, content |-> content,
     image_number |-> 0, image_query |-> "", image_mode |-> "", no_image |-> FALSE,
     is_exact |-> FALSE]

EducationalPresentation == <<T("educational_presentation")>>

\* a first slide typed as a content slide
BaseSlideAsContent(req) ==
    Slide(1, "content", req.topic,
          <<Str(IF req.subject # <<>> THEN req.subject ELSE EducationalPresentation)>>)

BaseSlide(req) ==
    Slide(1, "title", req.topic,
          <<Str(IF req.subject # <<>> THEN req.subject ELSE EducationalPresentation)>>)

-----------------------------------------------------------------------------
(* _add_image_hints *)

MaxHints == 3

Locked(s) == s.image_mode = "NONE" \/ s.no_image

IntroLike(s) ==
    s.slide_type = "title" \/ In("intro", Lower(s.title))

ArchLike(s) ==
    In("architecture", Lower(s.title)) \/ In("structure", Lower(s.title))

\* the first loop: deck, the targets still to visit, hints_added, found_arch
RECURSIVE HintLoop(_, _, _, _)
HintLoop(deck, targets, hints_added, found_arch) ==
    IF targets = <<>> THEN [deck |-> deck, found_arch |-> found_arch]
    ELSE LET i == targets[1]
         IN  IF Locked(deck[i]) THEN HintLoop(deck, Tail(targets), hints_added, found_arch)
             ELSE IF hints_added >= MaxHints THEN [deck |-> deck, found_arch |-> found_arch]
             ELSE IF IntroLike(deck[i])
                  THEN HintLoop([deck EXCEPT ![i].image_query = "overview"],
                                Tail(targets), hints_added + 1, found_arch)
             ELSE IF ArchLike(deck[i])
                  THEN HintLoop([deck EXCEPT ![i].image_query = "architecture diagram"],
                                Tail(targets), hints_added + 1, TRUE)
             ELSE HintLoop(deck, Tail(targets), hints_added, found_arch)

\* targets: the positions in the deck of the slides handed to the step, in order
AddImageHints(deck, targets) ==
    LET r == HintLoop(deck, targets, 0, FALSE)
        open == SelectSeq(targets, LAMBDA i : ~Locked(deck[i]) /\ deck[i].slide_type = "content")
    IN  IF r.found_arch \/ open = <<>> THEN r.deck
        ELSE [r.deck EXCEPT ![open[1]].image_query = "architecture diagram"]

-----------------------------------------------------------------------------
(* _enforce_bullet_constraints *)

\* the length of "..."
EllipsisLen == 3

\* the positions at which a word of the text ends, its words joined by one space
WordEnds(text) == {TextLen(SubSeq(text, 1, i)) : i \in DOMAIN text}

\* len(p[: max_len - 3].rstrip()) for a text p longer than max_len: the cut
\* leaves a trailing space when a word ends just before it
KeptLen(p) ==
    IF (MaxLen - EllipsisLen - 1) \in WordEnds(p) THEN MaxLen - EllipsisLen - 1
    ELSE MaxLen - EllipsisLen

\* the length of a content line as the deck holds it
LineLen(point) == IF point.cut THEN KeptLen(point.t) + EllipsisLen ELSE TextLen(point.t)

\* a line stripped of surrounding white space and never cut
ShapeNoCut(point) == [t |-> Strip(point.t), cut |-> point.cut]

Shape(point) ==
    LET p == Strip(point.t)
    IN  IF TextLen(p) > MaxLen THEN [t |-> p, cut |-> TRUE] ELSE [t |-> p, cut |-> point.cut]

ShapeSlide(s) ==
    [s EXCEPT !.content = [i \in 1..(IF Len(s.content) > MaxBullets THEN MaxBullets ELSE Len(s.content))
                              |-> Shape(s.content[i])]]

\* content-length shaping that passes over no slide
EnforceWithoutGuard(deck, mode_5_exact_guard) == [i \in DOMAIN deck |-> ShapeSlide(deck[i])]

EnforceBulletConstraints(deck, mode_5_exact_guard) ==
    [i \in DOMAIN deck |->
        IF mode_5_exact_guard /\ deck[i].is_exact THEN deck[i] ELSE ShapeSlide(deck[i])]

\* the positions of the user slides of a deck, in order
UserSlides(deck) ==
    LET RECURSIVE Pick(_)
        Pick(i) == IF i > Len(deck) THEN <<>>
                   ELSE (IF deck[i].slide_number > 1 THEN <<i>> ELSE <<>>) \o Pick(i + 1)
    IN  Pick(1)

-----------------------------------------------------------------------------
(* _create_fallback_slides and _generate_legacy *)

GeneratedByEduAssist == <<T("generated_by_eduassist")>>

\* the three lines every slide of the fallback deck holds
FallbackSlideContent(topic) == [j \in 1..3 |-> Str(<<Tok("aspect", j, 0)>> \o topic)]

CreateFallbackSlides(topic, subject, num_slides) ==
    <<Slide(1, "title", topic, <<Str(IF subject # <<>> THEN subject ELSE GeneratedByEduAssist)>>)>>
    \o [i \in 1..num_slides |-> Slide(i + 1, "content", KeyConcept(i), FallbackSlideContent(topic))]

\* slide i of the answer to the legacy prompt: the answer gives no slide_type
LegacySlide(i) ==
    Slide(i + 1, "", IF i = 2 THEN <<Tok("word", 200 + i, 0), Tok("arch", 200 + i, 0)>>
                     ELSE <<Tok("word", 200 + i, 0)>>,
          LlmContent(Json(9, TRUE), 0))

LegacyDeck(topic, subject, n) ==
    <<BaseSlide([topic |-> topic, subject |-> subject])>> \o [i \in 1..n |-> LegacySlide(i)]

\* legacy generation without its try/except: a failed call or answer leaves it
GenerateLegacyNoCatch(topic, subject, num_slides, answer) ==
    IF answer.kind # "json" THEN [pc |-> "failed", deck |-> <<>>]
    ELSE [pc |-> "legacy",
          deck |-> EnforceBulletConstraints(
                       AddImageHints(LegacyDeck(topic, subject, answer.n),
                                     UserSlides(LegacyDeck(topic, subject, answer.n))), FALSE)]

\* answer: the call raised ("raise"), the text is not JSON ("text"), or JSON with n slides
GenerateLegacy(topic, subject, num_slides, answer) ==
    IF answer.kind # "json"
    THEN [pc |-> "fallback", deck |-> CreateFallbackSlides(topic, subject, num_slides)]
    ELSE [pc |-> "legacy",
          deck |-> EnforceBulletConstraints(
                       AddImageHints(LegacyDeck(topic, subject, answer.n),
                                     UserSlides(LegacyDeck(topic, subject, answer.n))), FALSE)]

-----------------------------------------------------------------------------
(* The slide each mode builds for one item of its list *)

Mode1Slide(item, bullets) == Slide(item.slide_number + 1, "content", item.title, bullets)

Mode2Slide(item, bullets) == Slide(item.slide_number + 1, "content", item.title, bullets)

Mode3Slide(item) == Slide(item.slide_number + 1, "content", item.title, item.content)

\* the image number the loop over image_mappings leaves on the slide: the last match
MappedImage(image_mappings, slide_num) ==
    LET hits == SelectSeq(image_mappings, LAMBDA x : x.slide_number = slide_num)
    IN  IF hits = <<>> THEN 0 ELSE hits[Len(hits)].image_number

\* the slide of _generate_mode_4 with a title of the generator's own
Mode4SlideRetitled(req, item, bullets) ==
    [Slide(item.slide_number + 1, "content", KeyConcept(item.slide_number), bullets)
        EXCEPT !.image_number = MappedImage(req.image_mappings, item.slide_number)]

Mode4Slide(req, item, bullets) ==
    [Slide(item.slide_number + 1, "content", item.title, bullets)
        EXCEPT !.image_number = MappedImage(req.image_mappings, item.slide_number)]

IsExactSlide(instruction) == ~instruction.should_generate /\ instruction.exact_content # <<>>

Mode5Slide(instruction, bullets) ==
    [Slide(instruction.slide_number + 1, "content", instruction.title,
           IF IsExactSlide(instruction) THEN instruction.exact_content
           ELSE IF instruction.should_generate THEN bullets ELSE <<>>)
        EXCEPT !.image_mode = instruction.image_mode,
               !.image_number = IF instruction.image_mode = "UPLOAD" THEN instruction.image_number ELSE 0,
               !.no_image = (instruction.image_mode = "NONE"),
               !.is_exact = IsExactSlide(instruction)]

\* the list the generator of the mode walks through
Worklist(req) ==
    CASE req.mode = "mode_1" -> DefaultSlideTitles(req.number)
      [] req.mode = "mode_2" -> req.slide_titles
      [] req.mode = "mode_3" -> req.exact_content
      [] req.mode = "mode_4" -> req.slide_titles
      [] req.mode = "mode_5" -> req.slide_instructions
      [] OTHER -> <<>>

\* every slide gets its content from the bullet generator
GeneratesAlways(req, item) == TRUE

\* does the item's slide get its content from the bullet generator
Generates(req, item) ==
    req.mode \in {"mode_1", "mode_2", "mode_4"}
    \/ (req.mode = "mode_5" /\ ~IsExactSlide(item) /\ item.should_generate)

NewSlide(req, item, bullets) ==
    CASE req.mode = "mode_1" -> Mode1Slide(item, bullets)
      [] req.mode = "mode_2" -> Mode2Slide(item, bullets)
      [] req.mode = "mode_3" -> Mode3Slide(item)
      [] req.mode = "mode_4" -> Mode4Slide(req, item, bullets)
      [] req.mode = "mode_5" -> Mode5Slide(item, bullets)

-----------------------------------------------------------------------------
(* The checks of _generate_mode_2 .. _generate_mode_5 and generate_slide_content *)

\* the checks made before the first slide is built, without the count check of mode 4
PrecheckNoCount(req) ==
    CASE req.mode = "mode_2" ->
            IF req.slide_titles = <<>> THEN Err("mode2_no_titles", 0, 0)
            ELSE IF Len(req.slide_titles) # req.number
                 THEN Err("mode2_count", req.number, Len(req.slide_titles))
            ELSE NoError
      [] req.mode = "mode_3" ->
            IF req.exact_content = <<>> THEN Err("mode3_no_content", 0, 0) ELSE NoError
      [] req.mode = "mode_4" ->
            IF req.slide_titles = <<>> THEN Err("mode4_no_titles", 0, 0) ELSE NoError
      [] OTHER -> NoError

\* the checks made before the first slide is built, without those for an empty list
PrecheckNoEmptiness(req) ==
    CASE req.mode \in {"mode_2", "mode_4"} ->
            IF Len(req.slide_titles) # req.number
            THEN Err(IF req.mode = "mode_2" THEN "mode2_count" ELSE "mode4_count",
                     req.number, Len(req.slide_titles))
            ELSE NoError
      [] OTHER -> NoError

\* the checks made before the first slide is built
Precheck(req) ==
    CASE req.mode = "mode_2" ->
            IF req.slide_titles = <<>> THEN Err("mode2_no_titles", 0, 0)
            ELSE IF Len(req.slide_titles) # req.number
                 THEN Err("mode2_count", req.number, Len(req.slide_titles))
            ELSE NoError
      [] req.mode = "mode_3" ->
            IF req.exact_content = <<>> THEN Err("mode3_no_content", 0, 0) ELSE NoError
      [] req.mode = "mode_4" ->
            IF req.slide_titles = <<>> THEN Err("mode4_no_titles", 0, 0)
            ELSE IF Len(req.slide_titles) # req.number
                 THEN Err("mode4_count", req.number, Len(req.slide_titles))
            ELSE NoError
      [] OTHER -> NoError

\* user_titles.get(n): << title >> or << >>
UserTitle(slide_titles, n) ==
    LET hits == SelectSeq(slide_titles, LAMBDA t : t.slide_number = n)
    IN  IF hits = <<>> THEN <<>> ELSE <<hits[Len(hits)].title>>

\* "TITLE LOCK ENFORCEMENT": the first slide whose title is not the user's, 0 if none
TitleMismatch(deck, slide_titles) ==
    LET bad == {i \in DOMAIN deck :
                  /\ deck[i].slide_number > 1
                  /\ UserTitle(slide_titles, deck[i].slide_number - 1) # <<>>
                  /\ UserTitle(slide_titles, deck[i].slide_number - 1)[1] # <<>>
                  /\ deck[i].title # UserTitle(slide_titles, deck[i].slide_number - 1)[1]}
    IN  IF bad = {} THEN 0 ELSE Min(bad)

\* the slides _generate_mode_5 hands to the image-hint step
Mode5HintTargets(deck) ==
    SelectSeq(UserSlides(deck), LAMBDA i : deck[i].image_mode # "NONE" /\ deck[i].image_number = 0)

\* every generator handing its user slides to the image-hint step
AssembleWithHints(req, user_slides) ==
    [err |-> NoError,
     deck |-> AddImageHints(<<BaseSlide(req)>> \o user_slides,
                            UserSlides(<<BaseSlide(req)>> \o user_slides))]

\* what each generator does between its loop and content-length shaping
Assemble(req, user_slides) ==
    LET deck == <<BaseSlide(req)>> \o user_slides
    IN  CASE req.mode = "mode_1" ->
                [err |-> NoError, deck |-> AddImageHints(deck, UserSlides(deck))]
          [] req.mode = "mode_2" ->
                IF Len(user_slides) # req.number
                THEN [err |-> Err("mode2_generated", req.number, Len(user_slides)), deck |-> <<>>]
                ELSE IF Len(deck) # req.number + 1
                THEN [err |-> Err("mode2_final_count", req.number + 1, Len(deck)), deck |-> <<>>]
                ELSE IF TitleMismatch(deck, req.slide_titles) # 0
                THEN [err |-> Err("mode2_title", TitleMismatch(deck, req.slide_titles), 0), deck |-> <<>>]
                ELSE [err |-> NoError, deck |-> deck]
          [] req.mode = "mode_3" -> [err |-> NoError, deck |-> deck]
          [] req.mode = "mode_4" ->
                IF Len(user_slides) # req.number
                THEN [err |-> Err("mode4_generated", req.number, Len(user_slides)), deck |-> <<>>]
                ELSE [err |-> NoError, deck |-> deck]
          [] req.mode = "mode_5" ->
                IF Len(deck) # 1 + Len(req.slide_instructions)
                THEN [err |-> Err("mode5_count", 1 + Len(req.slide_instructions), Len(deck)), deck |-> <<>>]
                ELSE [err |-> NoError,
                      deck |-> IF Mode5HintTargets(deck) # <<>>
                               THEN AddImageHints(deck, Mode5HintTargets(deck)) ELSE deck]

\* "MODE 5 EXACT CONTENT VERIFICATION": an instruction whose slide lost its content
ExactMismatch(deck, slide_instructions) ==
    \E k \in DOMAIN slide_instructions :
        LET ins == slide_instructions[k]
            at == {i \in DOMAIN deck : deck[i].slide_number = ins.slide_number + 1}
        IN  /\ IsExactSlide(ins)
            /\ at # {}
            /\ LET actual == deck[Min(at)].content
               IN  \/ Len(actual) # Len(ins.exact_content)
                   \/ \E b \in DOMAIN actual :
                        [actual[b] EXCEPT !.t = Strip(@)] # [ins.exact_content[b] EXCEPT !.t = Strip(@)]

\* content-length shaping and the checks made after it
ShapeAndVerify(req, deck) ==
    LET shaped == EnforceBulletConstraints(deck, req.mode = "mode_5")
    IN  CASE req.mode = "mode_2" ->
                IF TitleMismatch(shaped, req.slide_titles) # 0
                THEN [err |-> Err("mode2_title", TitleMismatch(shaped, req.slide_titles), 0), deck |-> <<>>]
                ELSE IF Len(shaped) # req.number + 1
                THEN [err |-> Err("mode2_slide_count", req.number + 1, Len(shaped)), deck |-> <<>>]
                ELSE [err |-> NoError, deck |-> shaped]
          [] req.mode = "mode_5" ->
                IF Len(shaped) # 1 + Len(req.slide_instructions)
                THEN [err |-> Err("mode5_count", 1 + Len(req.slide_instructions), Len(shaped)), deck |-> <<>>]
                ELSE IF ExactMismatch(shaped, req.slide_instructions)
                THEN [err |-> Err("mode5_exact_modified", 0, 0), deck |-> <<>>]
                ELSE [err |-> NoError, deck |-> shaped]
          [] OTHER -> [err |-> NoError, deck |-> shaped]

-----------------------------------------------------------------------------
(* The instructions the model is run on *)

\* "Create a <n>-slide PPT on X. Subject: Y"; n = 0: no count is declared
Header(n) ==
    (IF n = 0 THEN <<>> ELSE <<Tok("cnt", n, 0)>>)
    \o <<T("ppton"), Tok("word", 50, 0), T("dot"), T("subject"), Tok("word", 60, 0)>>

Sep(sep) == IF sep = "nl" THEN <<NL>> ELSE <<>>

\* one marker, or none, for each structural marker: every combination
MarkerChoices ==
    [exact : {"", "exact", "exactc"}, nomod : {"", "nomod", "dontmod"}, content : {"", "content"},
     sinstr : {"", "sinstr"}, implace : {"", "implace"},
     titles : {"", "stitles", "stitles_sp", "sstruct"}, auto : {"", "usedef", "genall", "genself"}]

MarkerPrompt(c) ==
    <<Tok("cnt", 1, 0)>>
    \o SelectSeq(<<T(c.auto), T(c.titles), T(c.implace), T(c.sinstr), T(c.content), T(c.nomod), T(c.exact)>>,
                 LAMBDA t : t.k # "")

MarkerPrompts ==
    {MarkerPrompt(c) : c \in MarkerChoices} \cup {UpperText(MarkerPrompt(c)) : c \in MarkerChoices}

\* AutoGenerate: a declared count, or none
AutoPrompts ==
    {Header(n) \o <<NL, T("usedef")>> : n \in 0..(Len(default_titles) + 1)}

\* the title the instructions give user slide k
TitleText(k) ==
    CASE k = 1 -> <<Tok("intro", 1, 0)>>
      [] k = 2 -> <<Tok("word", 2, 0), Tok("arch", 2, 0)>>
      [] OTHER -> <<Tok("word", k, 0)>>

Entry(k, title) == [n |-> k, title |-> title]

\* the numbers of S in ascending order, each with its title
Asc(S) == SelectSeq([k \in 1..MaxSlides |-> Entry(k, TitleText(k))], LAMBDA e : e.n \in S)

Desc == [i \in 1..MaxSlides |-> Entry(MaxSlides + 1 - i, TitleText(MaxSlides + 1 - i))]

\* slide 1 is given a second time, with another title
Twice(k) == Asc(1..k) \o <<Entry(1, <<Tok("word", 91, 0)>>)>>

TitleLists ==
    {Asc(S) : S \in (SUBSET (1..MaxSlides)) \ {{}}} \cup {Desc} \cup {Twice(k) : k \in 1..(MaxSlides - 1)}

\* "Slide 1: <title>" entries, each begun by a newline (sep = "nl") or a blank
RECURSIVE Entries(_, _)
Entries(list, sep) ==
    IF list = <<>> THEN <<>>
    ELSE Sep(sep) \o <<Upper(Tok("slide", list[1].n, 0))>> \o list[1].title \o Entries(Tail(list), sep)

\* CustomTitles: "... Slide titles: Slide 1: A Slide 2: B ... [Generate content for each slide]"
CustomPrompt(n, marker, list, sep, closing) ==
    Header(n) \o Sep(sep) \o <<Upper(T(marker))>> \o Entries(list, sep)
    \o (IF closing THEN Sep(sep) \o <<Upper(T("gencontent"))>> ELSE <<>>)

\* the counts the instructions with titles declare: none, one, as many as there can be titles
Counts == {0, 1, MaxSlides}

CustomPrompts ==
    {CustomPrompt(n, marker, list, sep, FALSE) :
        n \in Counts, marker \in {"stitles", "stitles_sp", "sstruct"},
        list \in TitleLists, sep \in {"nl", "sp"}}
    \cup {CustomPrompt(n, "stitles", list, sep, TRUE) :
             n \in Counts, list \in TitleLists, sep \in {"nl", "sp"}}

\* the lists of "Use Image i on Slide n" directives, each a list of << i, n >>
ImageLists ==
    { <<>>, << <<1, 2>> >>, << <<1, 1>>, <<2, 1>> >>, << <<1, 1>>, <<1, MaxSlides>> >> }

\* the directives, the second and later ones begun by a newline or by an empty line
RECURSIVE Directives(_, _)
Directives(list, gap) ==
    IF list = <<>> THEN <<>>
    ELSE <<Upper(Tok("imgmap", list[1][1], list[1][2]))>>
         \o (IF Len(list) > 1 THEN (IF gap THEN <<NL, NL>> ELSE <<NL>>) ELSE <<>>)
         \o Directives(Tail(list), gap)

\* ImageControlled: "... Slide structure: Slide 1: A ... Image placement: Use Image 1 on Slide 2"
ImagePrompt(n, list, sep, images, gap) ==
    Header(n) \o Sep(sep) \o <<Upper(T("sstruct"))>> \o Entries(list, sep)
    \o (IF sep = "nl" THEN <<NL, NL>> ELSE <<>>) \o <<Upper(T("implace"))>> \o Sep(sep)
    \o Directives(images, gap)

ImagePrompts ==
    {ImagePrompt(n, list, sep, images, gap) :
        n \in Counts, list \in {Asc(1..k) : k \in 1..MaxSlides} \cup {Asc({1, MaxSlides})},
        sep \in {"nl", "sp"}, images \in ImageLists, gap \in BOOLEAN}

\* the content lines written for a slide of an ExactContent instruction
ContentLines(k, variant) ==
    CASE variant = "dashes" -> << <<T("dash"), Tok("word", 10 * k + 1, 0)>>,
                                  <<T("dash"), Tok("word", 10 * k + 2, 0), T("dot")>> >>
      [] variant = "plain"  -> << <<Tok("word", 10 * k + 1, 0)>>, <<Tok("word", 10 * k + 2, 0)>> >>
      [] variant = "none"   -> <<>>
      [] variant = "many"   -> [j \in 1..(MaxBullets + 1) |-> <<T("dash"), Tok("word", 100 * k + j, 0)>>]
      [] variant = "long"   -> << <<T("dash"), Tok("long", 10 * k + 1, 0)>>,
                                  <<T("dash"), Tok("word", 10 * k + 2, 0)>> >>
      [] variant = "spaced" -> << <<T("dash")>> \o [j \in 1..12 |-> Tok("word", 100 * k + j, 0)]
                                     \o <<Tok("short", 1, 0), Tok("word", 100 * k + 13, 0)>>,
                                  <<T("dash"), Tok("word", 10 * k + 2, 0)>> >>

RECURSIVE Lines(_, _)
Lines(lines, sep) ==
    IF lines = <<>> THEN <<>> ELSE Sep(sep) \o lines[1] \o Lines(Tail(lines), sep)

\* "Slide k: Title: T Content: - a - b"
ExactBlock(k, variant, sep) ==
    Sep(sep) \o <<Upper(Tok("slide", k, 0))>> \o Sep(sep) \o <<Upper(T("title"))>> \o TitleText(k)
    \o Sep(sep) \o <<Upper(T("content"))>> \o Lines(ContentLines(k, variant), sep)

RECURSIVE ExactBlocks(_, _, _, _)
ExactBlocks(k, last, variant, sep) ==
    IF k > last THEN <<>>
    ELSE ExactBlock(k, IF k = 1 THEN variant ELSE "dashes", sep) \o ExactBlocks(k + 1, last, variant, sep)

\* ExactContent: "... Use EXACT content. Do NOT modify. Slide 1: Title: ... Content: ..."
ExactPrompt(n, last, variant, sep) ==
    Header(n) \o Sep(sep) \o <<Upper(T("exact")), T("dot"), Upper(T("nomod")), T("dot")>>
    \o ExactBlocks(1, last, variant, sep)

ExactPrompts ==
    {ExactPrompt(n, last, variant, sep) :
        n \in {0, 1, MaxSlides}, last \in 1..MaxSlides,
        variant \in {"dashes", "plain", "none", "many", "long", "spaced"}, sep \in {"nl", "sp"}}

\* the title an instruction gives a slide it names a second time
TitleAgain == <<Tok("word", 91, 0)>>

\* a second block for slide 1, with a title and content of its own
ExactBlockAgain(sep) ==
    Sep(sep) \o <<Upper(Tok("slide", 1, 0))>> \o Sep(sep) \o <<Upper(T("title"))>> \o TitleAgain
    \o Sep(sep) \o <<Upper(T("content"))>> \o Lines(ContentLines(9, "dashes"), sep)

ExactOpening(n, sep) ==
    Header(n) \o Sep(sep) \o <<Upper(T("exact")), T("dot"), Upper(T("nomod")), T("dot")>>

\* ExactContent with the blocks of the slides 2 and 1 in that order, and with
\* slide 1 given twice
ExactOrderPrompts ==
    {ExactOpening(2, sep) \o ExactBlock(2, "dashes", sep) \o ExactBlock(1, "dashes", sep) :
        sep \in {"nl", "sp"}}
    \cup {ExactOpening(2, sep) \o ExactBlocks(1, 2, "dashes", sep) \o ExactBlockAgain(sep) :
             sep \in {"nl", "sp"}}

\* the lines a MixedControl block holds after its title
BlockLines(k, option) ==
    CASE option = "generate" -> << <<Upper(T("gencontent"))>> >>
      [] option = "generate_no_image" -> << <<Upper(T("gencontent"))>>, <<Upper(T("noimg"))>> >>
      [] option = "generate_both" ->
            << <<Upper(T("gencontent"))>>, <<Upper(Tok("useimg", 1, 0))>>, <<Upper(T("noimg"))>> >>
      [] option = "exact_no_image" ->
            << <<Upper(T("exactc"))>>, <<T("dash"), Tok("word", 10 * k + 1, 0)>>,
               <<T("bullet"), Tok("long", 10 * k + 2, 0)>>, <<Upper(T("noimg"))>> >>
      [] option = "exact_use_image" ->
            << <<Upper(T("exactc"))>>, <<T("dash"), Tok("word", 10 * k + 1, 0)>>,
               <<Upper(Tok("useimg", k, 0))>> >>
      [] option = "exact_empty" -> << <<Upper(T("exactc"))>>, <<Tok("word", 10 * k + 1, 0)>> >>
      [] option = "exact_unmarked" -> << <<Upper(T("exact"))>>, <<T("dash"), Tok("word", 10 * k + 1, 0)>> >>
      [] option = "untitled" -> << <<Upper(T("gencontent"))>> >>

BlockOptions(k) ==
    IF k <= 2
    THEN {"generate", "generate_no_image", "generate_both", "exact_no_image", "exact_use_image",
          "exact_empty", "exact_unmarked", "untitled"}
    ELSE {"generate_no_image", "exact_no_image"}

\* "Slide k:" / "Title: T" / the lines of the option
MixedBlock(k, option) ==
    <<NL, Upper(Tok("slide", k, 0))>>
    \o (IF option = "untitled" THEN <<>> ELSE <<NL, Upper(T("title"))>> \o TitleText(k))
    \o Lines(BlockLines(k, option), "nl")

RECURSIVE MixedBlocks(_)
MixedBlocks(options) ==
    IF options = <<>> THEN <<>>
    ELSE MixedBlocks(SubSeq(options, 1, Len(options) - 1)) \o MixedBlock(Len(options), options[Len(options)])

\* MixedControl: "... Slide instructions:" and one block for each of the slides 1..Len(options)
MixedPrompt(n, options) ==
    Header(n) \o <<NL, Upper(T("sinstr"))>> \o MixedBlocks(options)

OptionLists ==
    UNION {{o \in [1..last -> BlockOptions(1)] : \A k \in 1..last : o[k] \in BlockOptions(k)}
              : last \in 1..MaxSlides}

MixedPrompts ==
    {MixedPrompt(Len(options), options) : options \in OptionLists}

\* a second block for slide 1, with a title of its own
MixedBlockAgain(option) ==
    <<NL, Upper(Tok("slide", 1, 0)), NL, Upper(T("title"))>> \o TitleAgain
    \o Lines(BlockLines(9, option), "nl")

\* MixedControl with the blocks of the slides 2 and 1 in that order, and with
\* slide 1 given twice
MixedOrderPrompts ==
    {Header(2) \o <<NL, Upper(T("sinstr"))>> \o MixedBlock(2, o2) \o MixedBlock(1, o1) :
        o1 \in {"generate", "exact_use_image"}, o2 \in {"generate_no_image", "exact_no_image"}}
    \cup {Header(2) \o <<NL, Upper(T("sinstr"))>> \o MixedBlock(1, o1) \o MixedBlock(2, "generate")
             \o MixedBlockAgain(again) :
             o1 \in {"generate", "exact_use_image"}, again \in {"generate", "exact_use_image"}}

\* the title of block k of an instruction with several introductions: the first
\* title is plain, the following ones hold "Intro"
HintTitle(k) == IF k = 1 THEN <<Tok("word", 1, 0)>> ELSE <<Tok("intro", k, 0)>>

\* "Slide k:" / "Title: T" / "USE EXACT CONTENT:" / "- line"
HintBlock(k) ==
    <<NL, Upper(Tok("slide", k, 0)), NL, Upper(T("title"))>> \o HintTitle(k)
    \o Lines(<< <<Upper(T("exactc"))>>, <<T("dash"), Tok("word", 10 * k + 1, 0)>> >>, "nl")

RECURSIVE HintBlocks(_)
HintBlocks(last) == IF last = 0 THEN <<>> ELSE HintBlocks(last - 1) \o HintBlock(last)

\* MixedControl with a plain slide followed by up to MaxHints introductions
MixedHintPrompts ==
    {Header(0) \o <<NL, Upper(T("sinstr"))>> \o HintBlocks(last) : last \in 2..(MaxHints + 1)}

\* the titles of the slides 0, 1, .., MaxSlides - 1
FromZero == [i \in 1..MaxSlides |-> Entry(i - 1, TitleText(i))]

\* the titles of the slides 0, 2, .., MaxSlides
ZeroAndGap ==
    [i \in 1..MaxSlides |-> IF i = 1 THEN Entry(0, TitleText(1)) ELSE Entry(i, TitleText(i))]

\* CustomTitles and ImageControlled instructions that declare MaxSlides slides
\* and number the first of them 0
ZeroPrompts ==
    {CustomPrompt(MaxSlides, "stitles", list, "nl", FALSE) : list \in {FromZero, ZeroAndGap}}
    \cup {ImagePrompt(MaxSlides, FromZero, "nl", << <<1, 1>> >>, FALSE)}

Prompts ==
    MarkerPrompts \cup AutoPrompts \cup CustomPrompts \cup ImagePrompts \cup ExactPrompts
    \cup MixedPrompts \cup ExactOrderPrompts \cup MixedOrderPrompts \cup MixedHintPrompts
    \cup ZeroPrompts

\* the answers of the text-generation service to one slide's request
GenOutcomes ==
    { [first |-> Json(9, FALSE), retry |-> Raises],
      [first |-> Json(12, TRUE), retry |-> Raises],
      [first |-> Raises, retry |-> Raises],
      [first |-> Json(3, FALSE), retry |-> Json(3, FALSE)],
      [first |-> Json(3, FALSE), retry |-> Raises] }

-----------------------------------------------------------------------------
(* generate_slide_content, step by step *)

\* the image steps have not begun
NoImageSteps ==
    /\ image_requests = <<>>
    /\ image_path = <<>>
    /\ preferred_image_url = <<>>
    /\ pictures = {}
    /\ removed = {}

\* the calendar store is not part of the run
NoCalendar == events = <<>> /\ response = [status |-> 0, inserted |-> 0]

\* the arguments topic, subject and num_slides of a call without user_input
LegacyCalls ==
    [topic : {<<Tok("word", 50, 0)>>}, subject : {<<>>, <<Tok("word", 60, 0)>>},
     num_slides : 0..MaxSlides]

\* the arguments of a call with user_input: num_slides = 8 and subject = None by default
DefaultCall == [topic |-> <<Tok("word", 50, 0)>>, subject |-> <<>>, num_slides |-> DefaultNumber]

\* what the text-generation service answers to the legacy prompt
LegacyAnswers ==
    {[kind |-> "raise", n |-> 0], [kind |-> "text", n |-> 0]}
    \cup {[kind |-> "json", n |-> n] : n \in 0..MaxSlides}

Init ==
    /\ \/ user_input \in Prompts /\ call = DefaultCall
       \/ user_input = <<>> /\ call \in LegacyCalls
    /\ pc = "entry"
    /\ detected_mode = "none"
    /\ parsed = NoRequest
    /\ slides = <<>>
    /\ cursor = 0
    /\ llm_calls = 0
    /\ failed_calls = 0
    /\ error = NoError
    /\ NoImageSteps
    /\ NoCalendar

\* an error answered with the placeholder deck instead of being raised
FailToFallback(err) ==
    /\ pc' = "fallback"
    /\ error' = error
    /\ slides' = CreateFallbackSlides(call.topic, call.subject, call.num_slides)

\* raise: the error leaves generate_slide_content, no deck is returned
Fail(err) ==
    /\ pc' = "failed"
    /\ error' = err
    /\ slides' = <<>>

\* "If user_input provided, use mode-based generation": the classifier is called
Detect ==
    /\ pc = "entry"
    /\ user_input # <<>>
    /\ detected_mode' = DetectPptMode(user_input)
    /\ pc' = "parse"
    /\ UNCHANGED <<api_vars, cal_vars, call, user_input, parsed, slides, cursor, llm_calls, failed_calls, error>>

ParseOf(mode, prompt) ==
    CASE mode = "mode_1" -> ParseMode1(prompt)
      [] mode = "mode_2" -> ParseMode2(prompt)
      [] mode = "mode_3" -> ParseMode3(prompt)
      [] mode = "mode_4" -> ParseMode4(prompt)
      [] mode = "mode_5" -> ParseMode5(prompt)

\* "Legacy fallback ONLY when user_input is None": the whole of _generate_legacy
Legacy ==
    /\ pc = "entry"
    /\ user_input = <<>>
    /\ \E answer \in LegacyAnswers :
         LET r == GenerateLegacy(call.topic, call.subject, call.num_slides, answer)
         IN  /\ pc' = r.pc
             /\ slides' = r.deck
             /\ llm_calls' = llm_calls + 1
             /\ failed_calls' = failed_calls + (IF answer.kind = "raise" THEN 1 ELSE 0)
    /\ UNCHANGED <<api_vars, cal_vars, call, user_input, detected_mode, parsed, cursor, error>>

\* the parser of the detected mode
Parse ==
    /\ pc = "parse"
    /\ LET r == ParseOf(detected_mode, user_input)
       IN  IF r.err # NoError
           THEN Fail(r.err) /\ UNCHANGED parsed
           ELSE pc' = "precheck" /\ parsed' = r.req /\ UNCHANGED <<slides, error>>
    /\ UNCHANGED <<api_vars, cal_vars, call, user_input, detected_mode, cursor, llm_calls, failed_calls>>

\* the generator of the mode starts: its validation of the request
Validate ==
    /\ pc = "precheck"
    /\ IF Precheck(parsed) # NoError
       THEN Fail(Precheck(parsed)) /\ UNCHANGED cursor
       ELSE pc' = "loop" /\ cursor' = 1 /\ UNCHANGED <<slides, error>>
    /\ UNCHANGED <<api_vars, cal_vars, call, user_input, detected_mode, parsed, llm_calls, failed_calls>>

\* one turn of the generator's loop, for a slide whose bullets are generated
GenerateSlide ==
    /\ pc = "loop"
    /\ cursor <= Len(Worklist(parsed))
    /\ Generates(parsed, Worklist(parsed)[cursor])
    /\ \E o \in GenOutcomes :
         LET item == Worklist(parsed)[cursor]
             g == GenerateSingleSlideContent(item.title, parsed.topic, parsed.subject, o.first, o.retry)
         IN  /\ llm_calls' = llm_calls + g.calls
             /\ failed_calls' = failed_calls + FailedCalls(o.first, o.retry)
             /\ IF g.raised
                THEN Fail(Err("generation", 0, 0)) /\ UNCHANGED cursor
                ELSE /\ slides' = Append(slides, NewSlide(parsed, item, g.content))
                     /\ cursor' = cursor + 1
                     /\ UNCHANGED <<pc, error>>
    /\ UNCHANGED <<api_vars, cal_vars, call, user_input, detected_mode, parsed>>

\* one turn of the generator's loop, for a slide built without the bullet generator
CopySlide ==
    /\ pc = "loop"
    /\ cursor <= Len(Worklist(parsed))
    /\ ~Generates(parsed, Worklist(parsed)[cursor])
    /\ slides' = Append(slides, NewSlide(parsed, Worklist(parsed)[cursor], <<>>))
    /\ cursor' = cursor + 1
    /\ UNCHANGED <<api_vars, cal_vars, call, user_input, pc, detected_mode, parsed, llm_calls, failed_calls, error>>

\* after the loop: base slide, count and title checks, image hints
AssembleDeck ==
    /\ pc = "loop"
    /\ cursor > Len(Worklist(parsed))
    /\ LET r == Assemble(parsed, slides)
       IN  IF r.err # NoError
           THEN Fail(r.err)
           ELSE pc' = "assembled" /\ slides' = r.deck /\ UNCHANGED error
    /\ UNCHANGED <<api_vars, cal_vars, call, user_input, detected_mode, parsed, cursor, llm_calls, failed_calls>>

\* content-length shaping, the checks after it, and the return to the caller
ShapeDeck ==
    /\ pc = "assembled"
    /\ LET r == ShapeAndVerify(parsed, slides)
       IN  IF r.err # NoError
           THEN Fail(r.err)
           ELSE pc' = "returned" /\ slides' = r.deck /\ UNCHANGED error
    /\ UNCHANGED <<api_vars, cal_vars, call, user_input, detected_mode, parsed, cursor, llm_calls, failed_calls>>

Next ==
    \/ Detect
    \/ Legacy
    \/ Parse
    \/ Validate
    \/ GenerateSlide
    \/ CopySlide
    \/ AssembleDeck
    \/ ShapeDeck

Spec == Init /\ [][Next]_vars

-----------------------------------------------------------------------------
(* The image steps of assist (api/main.py) and the writer (utils/ppt_creator.py), *)
(* run on the deck generate_slide_content returned for a MixedControl instruction *)

\* MixedControl instructions for two slides, with and without "No image"
ImageStepOptions == {"generate", "generate_no_image", "exact_no_image", "exact_use_image"}

ImageStepPrompts == {MixedPrompt(2, options) : options \in [1..2 -> ImageStepOptions]}

\* the bullets of a slide when the text-generation service answers at once
AnsweredContent(req, item) ==
    IF Generates(req, item)
    THEN GenerateSingleSlideContent(item.title, req.topic, req.subject, Json(9, FALSE), Raises).content
    ELSE <<>>

\* the user slides the generator of the mode builds
GeneratedSlides(req) ==
    [i \in DOMAIN Worklist(req) |-> NewSlide(req, Worklist(req)[i], AnsweredContent(req, Worklist(req)[i]))]

\* the deck generate_slide_content returns
ReturnedDeck(req) == ShapeAndVerify(req, Assemble(req, GeneratedSlides(req)).deck).deck

\* one entry of image_requests: the slide number is the instruction's number + 1;
\* local_path is the file of an uploaded image, url and query come with the request
ImageRequests ==
    [slide_number : 2..3, local_path : {"", "uploaded.png", "missing.png"},
     url : {"", "http"}, query : {"", "diagram"}]

ImageRequestLists ==
    {<<>>} \cup {<<r>> : r \in ImageRequests}
    \cup {<<r, q>> : r \in {x \in ImageRequests : x.local_path # "missing.png"},
                     q \in {x \in ImageRequests : x.query = ""}}

\* os.path.exists
Exists(path) == path \notin {"", "missing.png"}

\* no slide has an image_path or a preferred_image_url
NoPaths(deck) == [i \in DOMAIN deck |-> ""]

\* the position of the first slide numbered sn, 0 if there is none
FirstNumbered(deck, sn) ==
    IF \E i \in DOMAIN deck : deck[i].slide_number = sn
    THEN Min({i \in DOMAIN deck : deck[i].slide_number = sn})
    ELSE 0

\* one request: "Priority: local_path > url > query"
ApplyOne(st, req, i) ==
    IF i = 0 THEN st
    ELSE IF req.local_path # ""
    THEN IF Exists(req.local_path) THEN [st EXCEPT !.image_path[i] = req.local_path] ELSE st
    ELSE IF req.url # "" THEN [st EXCEPT !.preferred_image_url[i] = req.url]
    ELSE IF req.query # "" THEN [st EXCEPT !.slides[i].image_query = req.query]
    ELSE st

RECURSIVE ApplyImageRequestsTo(_, _)
ApplyImageRequestsTo(st, requests) ==
    IF requests = <<>> THEN st
    ELSE ApplyImageRequestsTo(ApplyOne(st, requests[1], FirstNumbered(st.slides, requests[1].slide_number)),
                              Tail(requests))

\* one turn of the loop of _attach_images; got = 1 when an image was downloaded or
\* fetched.  downloads and fetches: the slides whose download or fetch succeeds
AttachOne(st, i, downloads, fetches) ==
    IF st.slides[i].slide_number = 1 THEN [st |-> st, got |-> 0]
    ELSE IF st.image_path[i] # "" /\ Exists(st.image_path[i]) THEN [st |-> st, got |-> 0]
    ELSE IF st.slides[i].image_number # 0
    THEN [st |-> [st EXCEPT !.image_path[i] = ""], got |-> 0]
    ELSE IF st.preferred_image_url[i] # "" /\ i \in downloads
    THEN [st |-> [st EXCEPT !.image_path[i] = "downloaded.png"], got |-> 1]
    ELSE IF Locked(st.slides[i]) THEN [st |-> [st EXCEPT !.image_path[i] = ""], got |-> 0]
    ELSE IF st.slides[i].image_query = "" THEN [st |-> [st EXCEPT !.image_path[i] = ""], got |-> 0]
    ELSE IF i \in fetches THEN [st |-> [st EXCEPT !.image_path[i] = "fetched.png"], got |-> 1]
    ELSE [st |-> [st EXCEPT !.image_path[i] = ""], got |-> 0]

\* the loop of _attach_images from slide i on
RECURSIVE AttachLoop(_, _, _, _, _, _)
AttachNext(r, i, fetched, max_images, downloads, fetches) ==
    AttachLoop(r.st, i + 1, fetched + r.got, max_images, downloads, fetches)

AttachLoop(st, i, fetched, max_images, downloads, fetches) ==
    IF i > Len(st.slides) \/ fetched >= max_images THEN st
    ELSE AttachNext(AttachOne(st, i, downloads, fetches), i, fetched, max_images, downloads, fetches)

\* a content slide written without looking at the image lock
CreateContentSlideNoLock(s, path, readable) ==
    [picture |-> path # "" /\ Exists(path) /\ readable, image_path |-> path]

\* _create_content_slide, "Add image if provided": is a picture added, and the
\* image_path the slide is left with.  readable: add_picture does not raise
CreateContentSlide(s, path, readable) ==
    IF Locked(s) THEN [picture |-> FALSE, image_path |-> ""]
    ELSE [picture |-> path # "" /\ Exists(path) /\ readable, image_path |-> path]

\* create_presentation: title and summary slides never carry a picture
WrittenSlide(s, path, readable) ==
    IF s.slide_type \in {"title", "summary"} THEN [picture |-> FALSE, image_path |-> path]
    ELSE CreateContentSlide(s, path, readable)

InitImages ==
    /\ user_input \in ImageStepPrompts
    /\ call = DefaultCall
    /\ detected_mode = DetectPptMode(user_input)
    /\ parsed = ParseMode5(user_input).req
    /\ slides = ReturnedDeck(parsed)
    /\ pc = "returned"
    /\ cursor = Len(Worklist(parsed)) + 1
    /\ llm_calls = Cardinality({i \in DOMAIN Worklist(parsed) : Generates(parsed, Worklist(parsed)[i])})
    /\ failed_calls = 0
    /\ error = NoError
    /\ image_requests \in ImageRequestLists
    /\ image_path = NoPaths(slides)
    /\ preferred_image_url = NoPaths(slides)
    /\ pictures = {}
    /\ removed = {}
    /\ NoCalendar

\* assist: "Applying user-specified image requests"
ApplyImageRequests ==
    /\ pc = "returned"
    /\ LET st == ApplyImageRequestsTo([slides |-> slides, image_path |-> image_path,
                                       preferred_image_url |-> preferred_image_url], image_requests)
       IN  /\ slides' = st.slides
           /\ image_path' = st.image_path
           /\ preferred_image_url' = st.preferred_image_url
    /\ pc' = "requests_applied"
    /\ UNCHANGED <<gen_vars, cal_vars, image_requests, pictures, removed>>

\* assist: "Fetching additional images", max_images = max(num_slides, len(image_requests))
AttachImages ==
    /\ pc = "requests_applied"
    /\ \E downloads \in SUBSET (DOMAIN slides), fetches \in SUBSET (DOMAIN slides) :
         LET st == AttachLoop([slides |-> slides, image_path |-> image_path,
                               preferred_image_url |-> preferred_image_url],
                              1, 0, Max({parsed.number, Len(image_requests)}), downloads, fetches)
         IN  /\ slides' = st.slides
             /\ image_path' = st.image_path
             /\ preferred_image_url' = st.preferred_image_url
    /\ pc' = "images_attached"
    /\ UNCHANGED <<gen_vars, cal_vars, image_requests, pictures, removed>>

\* assist: creator.create_presentation(slide_data)
CreatePresentation ==
    /\ pc = "images_attached"
    /\ \E unreadable \in SUBSET (DOMAIN slides) :
         /\ pictures' = {i \in DOMAIN slides :
                            WrittenSlide(slides[i], image_path[i], i \notin unreadable).picture}
         /\ image_path' = [i \in DOMAIN slides |->
                              WrittenSlide(slides[i], image_path[i], i \notin unreadable).image_path]
    /\ removed' = {i \in DOMAIN slides : image_path[i] # "" /\ image_path'[i] = ""}
    /\ pc' = "written"
    /\ UNCHANGED <<gen_vars, cal_vars, slides, image_requests, preferred_image_url>>

NextImages ==
    \/ ApplyImageRequests
    \/ AttachImages
    \/ CreatePresentation

SpecImages == InitImages /\ [][NextImages]_vars

-----------------------------------------------------------------------------
(* upload_timetable (api/main.py): the row-based upload into the calendar store *)

\* the rows of one upload are at most MaxRows, the events of the store at most MaxEvents
MaxRows == 2

MaxEvents == 4

\* a row without id
NoId == [kind |-> "none", n |-> 0]

\* the id "evt_<n>"
Evt(n) == [kind |-> "evt", n |-> n]

\* the ids a row of an uploaded file carries: none, "evt_1" .. "evt_3", or a name
RowIds == {NoId, [kind |-> "name", n |-> 1]} \cup {Evt(n) : n \in 1..3}

\* a row: its id column, and whether _parse_dt raises on its start or end
Rows == [id : RowIds, bad_date : BOOLEAN]

RowLists == UNION {[1..n -> Rows] : n \in 0..MaxRows}

\* existing_ids, computed once before the loop
ExistingIds(existing) == {existing[i].id : i \in DOMAIN existing}

\* row_l.get("id") or f"evt_{len(existing)+len(new_events)+1}"
RowId(row, existing, new_events) ==
    IF row.id # NoId THEN row.id ELSE Evt(Len(existing) + Len(new_events) + 1)

\* the loop over the rows: a bad date raises HTTPException(400), a row whose id
\* is in existing_ids is skipped, every other row is appended to new_events
RECURSIVE RowLoop(_, _, _, _)
RowLoop(existing, existing_ids, new_events, rows) ==
    IF rows = <<>> THEN [status |-> 200, new_events |-> new_events]
    ELSE IF rows[1].bad_date THEN [status |-> 400, new_events |-> <<>>]
    ELSE IF RowId(rows[1], existing, new_events) \in existing_ids
    THEN RowLoop(existing, existing_ids, new_events, Tail(rows))
    ELSE RowLoop(existing, existing_ids,
                 Append(new_events, [id |-> RowId(rows[1], existing, new_events)]), Tail(rows))

InitTimetable ==
    /\ user_input = <<>>
    /\ call = DefaultCall
    /\ pc = "entry"
    /\ detected_mode = "none"
    /\ parsed = NoRequest
    /\ slides = <<>>
    /\ cursor = 0
    /\ llm_calls = 0
    /\ failed_calls = 0
    /\ error = NoError
    /\ NoImageSteps
    /\ NoCalendar

\* one upload of a row-based file: merged = existing + new_events is saved
UploadTimetable ==
    /\ \E rows \in RowLists :
         /\ Len(events) + Len(rows) <= MaxEvents
         /\ LET r == RowLoop(events, ExistingIds(events), <<>>, rows)
            IN  /\ events' = events \o r.new_events
                /\ response' = [status |-> r.status, inserted |-> Len(r.new_events)]
    /\ UNCHANGED <<gen_vars, pc, slides, api_vars>>

NextTimetable == UploadTimetable

SpecTimetable == InitTimetable /\ [][NextTimetable]_vars

-----------------------------------------------------------------------------
(* What the properties speak about *)

\* the instruction holds the marker f, in any case
HasMarker(f) == Search(f, user_input)

\* the mode the priority order of the markers gives the instruction
ModeByPriority ==
    IF /\ HasMarker("exact content")
       /\ (HasMarker("do not modify") \/ HasMarker("don't modify"))
       /\ HasMarker("content:")
    THEN "mode_3"
    ELSE IF HasMarker("slide instructions:") THEN "mode_5"
    ELSE IF HasMarker("image placement:") THEN "mode_4"
    ELSE IF HasMarker("re:slide titles :") \/ HasMarker("slide structure:") THEN "mode_2"
    ELSE "mode_1"

\* the count the instruction declares, 0 when it declares none
DeclaredCount ==
    IF \E i \in DOMAIN user_input : user_input[i].k = "cnt" THEN ExtractNumber(user_input) ELSE 0

\* the numbers of the "Slide n:" markers written in the instruction, in order
WrittenNumbers ==
    LET marks == SelectSeq(user_input, LAMBDA t : t.k = "slide")
    IN  [i \in DOMAIN marks |-> marks[i].n]

\* the instruction declares N >= 1 slides and writes the titles 1..N, each once
WritesTitlesOneToN ==
    /\ DeclaredCount >= 1
    /\ Len(WrittenNumbers) = DeclaredCount
    /\ {WrittenNumbers[i] : i \in DOMAIN WrittenNumbers} = 1..DeclaredCount

\* the whole instruction stands on one line
OneLine == \A i \in DOMAIN user_input : user_input[i].k # "nl"

\* a content line that content-length shaping has cut
HasCutLine(deck) == \E i \in DOMAIN deck : \E b \in DOMAIN deck[i].content : deck[i].content[b].cut

\* the titles the description of AutoGenerate promises: the five canonical
\* titles, then "Key Concept k"
PromisedDefaultTitle(k) == IF k <= Len(default_titles) THEN default_titles[k] ELSE KeyConcept(k)

\* the titles extracted for a CustomTitles or ImageControlled instruction
ExtractedTitles ==
    IF detected_mode = "mode_2" THEN Unique(SortBySlideNumber(Mode2Titles(user_input)), {})
    ELSE Unique(SortBySlideNumber(Mode4Titles(user_input)), {})

ReconciledCount == Reconciled(ExtractNumber(user_input), ExtractedTitles)

\* the slide numbers of the extracted titles
ExtractedNumbers == {ExtractedTitles[i].slide_number : i \in DOMAIN ExtractedTitles}

\* the larger of the count the extractor reads and the largest extracted slide number
RaisedCount ==
    IF ExtractNumber(user_input) > Max(ExtractedNumbers) THEN ExtractNumber(user_input)
    ELSE Max(ExtractedNumbers)

\* the eight fallback bullets of a slide, as content-length shaping leaves them
ShapedFallback(title) ==
    [j \in 1..8 |-> Shape(FallbackBullets(title, parsed.topic, parsed.subject)[j])]

\* the block the "Slide n:" marker at position i of the instruction opens
BlockAt(i) == Slice(user_input, i, BlockEnd(user_input, i))

\* the positions of the block markers of a MixedControl instruction
BlockMarks ==
    {i \in DOMAIN user_input :
        user_input[i].k = "slide" /\ i > FindFrom("slide instructions:", user_input, 1)}

\* no line after "Use EXACT content:" starts with "-" or the bullet dot
NoBulletLineAfterExact(block) ==
    LET lines == SplitLines(Slice(block, FindFrom("use exact content:", block, 1) + 1, Len(block)))
    IN  \A l \in DOMAIN lines :
            Strip(lines[l]) = <<>> \/ Strip(lines[l])[1].k \notin {"dash", "bullet"}

\* a titled block that is not a generate block and declares EXACT content without a bullet
EmptyExactBlock(i) ==
    /\ BlockTitle(BlockAt(i)) # <<>>
    /\ ~Search("generate content", BlockAt(i))
    /\ Search("use exact content:", BlockAt(i))
    /\ NoBulletLineAfterExact(BlockAt(i))

EmptyExactMarks == {i \in BlockMarks : EmptyExactBlock(i)}

\* two items of the list carry the same slide number
DuplicateNumbers(items) ==
    \E i, j \in DOMAIN items : i < j /\ items[i].slide_number = items[j].slide_number

\* the slides of generate blocks among those the loop of MixedControl has built
GenerateSlidesBuilt ==
    Cardinality({k \in DOMAIN parsed.slide_instructions :
                    k < cursor /\ k <= Len(slides) /\ parsed.slide_instructions[k].should_generate})

\* the instruction holds "Use Image i on Slide n"
MapsImage(i, n) ==
    \E t \in DOMAIN user_input :
        user_input[t].k = "imgmap" /\ user_input[t].n = i /\ user_input[t].m = n

\* the line of the base slide: the extracted subject, or the stand-in for an empty one
SubjectLine ==
    IF ExtractSubject(user_input) # <<>> THEN ExtractSubject(user_input) ELSE EducationalPresentation

\* the first slide is numbered 1, typed title and titled with the extracted
\* topic; the user slides follow it, each numbered one above its item
BaseSlideFirst ==
    /\ Len(slides) = 1 + Len(Worklist(parsed))
    /\ slides[1].slide_number = 1
    /\ slides[1].slide_type = "title"
    /\ slides[1].title = ExtractTopic(user_input)
    /\ Len(slides[1].content) = 1
    /\ \A k \in DOMAIN Worklist(parsed) :
          /\ slides[k + 1].slide_number = Worklist(parsed)[k].slide_number + 1
          /\ slides[k + 1].slide_type = "content"

\* what the parser of the classified mode makes of the instruction
OwnParse == ParseOf(DetectPptMode(user_input), user_input)

-----------------------------------------------------------------------------
(* Properties *)

\* C1: the classifier returns the mode the fixed priority of the markers gives
\* (ExactContent, MixedControl, ImageControlled, CustomTitles, AutoGenerate),
\* whatever the case of the markers; an empty instruction is AutoGenerate; and
\* the request that is generated from is the one the parser of that mode made.
C1_ModeByPriority ==
    /\ DetectPptMode(<<>>) = "mode_1"
    /\ pc \notin {"entry", "legacy", "fallback"} => detected_mode = ModeByPriority
    /\ parsed # NoRequest => parsed.mode = detected_mode
    /\ pc \in {"precheck", "loop", "assembled", "returned"} => parsed.mode = detected_mode

\* MixedControl is chosen over the image and title markers the instruction
\* also holds, all of them written in capitals
C1_Witness ==
    /\ pc = "returned"
    /\ detected_mode = "mode_5"
    /\ HasMarker("image placement:") /\ HasMarker("slide structure:") /\ HasMarker("exact content")
    /\ ~In("slide instructions:", user_input)

\* C2: a CustomTitles or ImageControlled instruction that declares N slides and
\* writes exactly the titles 1..N is never refused and gives N + 1 slides, before
\* and after content-length shaping, whatever the bullet generator answers.
C2_SlideCount ==
    (detected_mode \in {"mode_2", "mode_4"} /\ WritesTitlesOneToN) =>
        /\ pc # "failed"
        /\ pc \in {"assembled", "returned"} => Len(slides) = DeclaredCount + 1

\* C3: in a deck returned for CustomTitles or ImageControlled, slide k + 1 is
\* user slide k and carries the title the request holds for k, for every k in 1..N.
C3_TitleRoundTrip ==
    (pc = "returned" /\ detected_mode \in {"mode_2", "mode_4"}) =>
        /\ Len(slides) = parsed.number + 1
        /\ \A k \in 1..parsed.number :
            /\ slides[k + 1].slide_number = k + 1
            /\ UserTitle(parsed.slide_titles, k) = <<slides[k + 1].title>>

\* an ImageControlled deck with two user slides or more is returned after shaping cut a bullet
C3_Witness ==
    /\ pc = "returned"
    /\ detected_mode = "mode_4"
    /\ parsed.number >= 2
    /\ HasCutLine(slides)

\* C4: in a deck returned for ExactContent, the content lines of slide k + 1 are
\* the lines extracted for user slide k, none cut and none dropped.
C4_ExactRoundTrip ==
    (pc = "returned" /\ detected_mode = "mode_3") =>
        \A k \in DOMAIN parsed.exact_content :
            /\ k + 1 <= Len(slides)
            /\ slides[k + 1].content = parsed.exact_content[k].content

\* C5: when every call of the bullet generator raised, the request is not
\* refused for it, the deck has one slide for each item of the request and the
\* base slide, and every slide whose bullets are generated has the 8 fallback
\* bullets.  (A MixedControl instruction that names a slide twice, one block of
\* them with EXACT content, is refused whatever the bullet generator answers.)
C5_FallbackOnFailure ==
    (llm_calls > 0 /\ failed_calls = llm_calls) =>
        /\ pc = "failed" =>
              (error.kind = "mode5_exact_modified" /\ DuplicateNumbers(parsed.slide_instructions))
        /\ pc = "returned" =>
            /\ Len(slides) = 1 + Len(Worklist(parsed))
            /\ \A k \in DOMAIN Worklist(parsed) :
                 Generates(parsed, Worklist(parsed)[k]) =>
                    /\ Len(slides[k + 1].content) = 8
                    /\ slides[k + 1].content = ShapedFallback(Worklist(parsed)[k].title)

\* a MixedControl deck is returned after two or more calls, all of which raised
C5_Witness ==
    /\ pc = "returned"
    /\ detected_mode = "mode_5"
    /\ llm_calls >= 2
    /\ failed_calls = llm_calls

\* C6: in a MixedControl deck, after the image-hint step and in the deck
\* returned, the slide of a block that says "no image" has no image query, and
\* no image number unless the block also says "Use Image n".
C6_ImageLock ==
    (pc \in {"assembled", "returned"} /\ detected_mode = "mode_5") =>
        \A i \in BlockMarks : \A d \in DOMAIN slides :
            (Search("no image", BlockAt(i)) /\ slides[d].slide_number = user_input[i].n + 1) =>
                /\ slides[d].image_query = ""
                /\ ~Search("use image", BlockAt(i)) => slides[d].image_number = 0

\* a returned MixedControl deck with a locked slide and a slide the hint step gave a query
C6_Witness ==
    /\ pc = "returned"
    /\ detected_mode = "mode_5"
    /\ \E d \in DOMAIN slides : slides[d].no_image /\ slides[d].slide_number > 1
    /\ \E d \in DOMAIN slides : slides[d].image_query = "architecture diagram"

\* C7: a deck returned for AutoGenerate with N slides declared (8 when none is)
\* has N + 1 slides, user slide k titled with the k-th canonical title for
\* k <= 5 and "Key Concept k" for k from 6 to N.
C7_DefaultDeck ==
    (pc = "returned" /\ detected_mode = "mode_1") =>
        /\ Len(slides) = parsed.number + 1
        /\ \A k \in 1..parsed.number : slides[k + 1].title = PromisedDefaultTitle(k)

\* C8: for a one-line CustomTitles instruction that declares N slides and
\* writes the titles 1..N, every "Slide n:" marker starts a title: the request
\* is not refused and the deck returned has the title written for k on slide k + 1.
C8_OneLineTitles ==
    (detected_mode = "mode_2" /\ OneLine /\ WritesTitlesOneToN) =>
        /\ pc # "failed"
        /\ pc = "returned" =>
            /\ Len(slides) = DeclaredCount + 1
            /\ \A k \in 1..DeclaredCount : slides[k + 1].title = TitleText(k)

C10_EmptyExactFails ==
    (detected_mode = "mode_5" /\ EmptyExactMarks # {}) =>
        /\ pc \in {"parse", "failed"}
        /\ slides = <<>>
        /\ llm_calls = 0
        /\ pc = "failed" =>
            error = Err("mode5_exact_no_bullets", user_input[Min(EmptyExactMarks)].n, 0)

\* the second block is the empty one and the first block is a valid EXACT block
C10_Witness ==
    /\ pc = "failed"
    /\ error = Err("mode5_exact_no_bullets", 2, 0)
    /\ \E i \in BlockMarks :
          /\ user_input[i].n = 1
          /\ Search("use exact content:", BlockAt(i))
          /\ ~NoBulletLineAfterExact(BlockAt(i))

\* C11: in CustomTitles the count is raised to the largest extracted slide
\* number before it is compared with the number of titles: when the titles are
\* those of the slides 1..M and the count read is at most M, the request is
\* accepted with the count M and the deck has M + 1 slides; when the numbers
\* of the titles leave a gap below M, the extractor refuses the request.
C11_CountRaisedFirst ==
    (detected_mode = "mode_2" /\ ExtractedTitles # <<>>) =>
        /\ (ExtractedNumbers = 1..RaisedCount) =>
              /\ pc # "failed"
              /\ parsed # NoRequest => (parsed.number = RaisedCount /\ Len(parsed.slide_titles) = RaisedCount)
              /\ pc \in {"assembled", "returned"} => Len(slides) = RaisedCount + 1
        /\ (\E n \in 1..Max(ExtractedNumbers) : n \notin ExtractedNumbers) =>
              /\ pc \in {"parse", "failed"}
              /\ parsed = NoRequest
              /\ pc = "failed" => error = Err("mode2_count", RaisedCount, Len(ExtractedTitles))

\* one slide is declared, the titles of the slides 1..MaxSlides are given: a
\* deck with MaxSlides user slides is returned
C11_Witness ==
    /\ pc = "returned"
    /\ detected_mode = "mode_2"
    /\ DeclaredCount = 1
    /\ ExtractedNumbers = 1..MaxSlides
    /\ Len(slides) = MaxSlides + 1

\* C12: with a non-empty instruction, the legacy generator and the placeholder
\* deck are never reached; an error of the extractor or of a check of the
\* generator leaves the call as that error, with no deck; and a deck that is
\* returned was built from the request the parser of the classified mode made,
\* one slide for each of its items after the base slide, under the item's title.
C12_NoSubstituteDeck ==
    user_input # <<>> =>
        /\ pc \notin {"legacy", "fallback"}
        /\ pc = "failed" => (error # NoError /\ slides = <<>>)
        /\ OwnParse.err # NoError =>
              /\ pc \in {"entry", "parse", "failed"}
              /\ pc = "failed" => error = OwnParse.err
        /\ (OwnParse.err = NoError /\ Precheck(OwnParse.req) # NoError) =>
              /\ pc \in {"entry", "parse", "precheck", "failed"}
              /\ pc = "failed" => error = Precheck(OwnParse.req)
        /\ pc = "returned" =>
              /\ error = NoError
              /\ parsed = OwnParse.req
              /\ Len(slides) = 1 + Len(Worklist(parsed))
              /\ \A k \in DOMAIN Worklist(parsed) : slides[k + 1].title = Worklist(parsed)[k].title

\* the extractor of CustomTitles refuses an instruction for its count of titles
C12_Witness ==
    /\ user_input # <<>>
    /\ pc = "failed"
    /\ error.kind = "mode2_count"
    /\ error = OwnParse.err
    /\ slides = <<>>

\* C13: a CustomTitles or ImageControlled instruction from which no title is
\* extracted, and an ExactContent instruction from which no slide with a title
\* and a content line is extracted, is refused before any slide is built: no
\* deck is returned, the bullet generator is not called, and the error is the
\* one that names the missing titles or content.
C13_NothingExtractedFails ==
    /\ (detected_mode \in {"mode_2", "mode_4"} /\ ExtractedTitles = <<>>) =>
          /\ pc \in {"parse", "precheck", "failed"}
          /\ slides = <<>>
          /\ llm_calls = 0
          /\ pc = "failed" =>
                error = Err(IF detected_mode = "mode_2" THEN "mode2_no_titles" ELSE "mode4_no_titles", 0, 0)
    /\ (detected_mode = "mode_3" /\ Mode3Blocks(user_input, 1) = <<>>) =>
          /\ pc \in {"parse", "precheck", "failed"}
          /\ slides = <<>>
          /\ llm_calls = 0
          /\ pc = "failed" => error = Err("mode3_no_content", 0, 0)

\* an ExactContent instruction with a titled slide block that holds no content
\* line is refused
C13_Witness ==
    /\ pc = "failed"
    /\ detected_mode = "mode_3"
    /\ error = Err("mode3_no_content", 0, 0)
    /\ \E i \in SlideMarks(user_input) : BlockTitle(BlockAt(i)) # <<>>

\* C14: a deck returned for ExactContent or MixedControl has one slide for each
\* of the slides the request counts (the declared count raised to the largest
\* slide number seen) and the base slide: a deck is never returned short.
C14_SlideCountInvariant ==
    (pc = "returned" /\ detected_mode \in {"mode_3", "mode_5"}) =>
        Len(slides) = parsed.number + 1

\* C15: in a deck returned for MixedControl, the slide of every block on the
\* exact branch holds the bullets extracted from that block, as many and with
\* the same text, none cut by content-length shaping, which passes over the
\* slide for its exact flag; the check of the exact content refuses a request
\* only when two blocks name the same slide.
C15_MixedExactKept ==
    detected_mode = "mode_5" =>
        /\ pc = "returned" =>
              \A k \in DOMAIN parsed.slide_instructions :
                  IsExactSlide(parsed.slide_instructions[k]) =>
                      /\ slides[k + 1].is_exact
                      /\ slides[k + 1].slide_number = parsed.slide_instructions[k].slide_number + 1
                      /\ slides[k + 1].content = parsed.slide_instructions[k].exact_content
                      /\ \E i \in BlockMarks :
                            /\ user_input[i].n = parsed.slide_instructions[k].slide_number
                            /\ slides[k + 1].content = ExactBullets(BlockAt(i))
        /\ (pc = "failed" /\ error.kind = "mode5_exact_modified") =>
              DuplicateNumbers(parsed.slide_instructions)

\* a returned MixedControl deck with an exact slide that holds a bullet longer
\* than MaxLen characters beside a slide whose bullets were generated
C15_Witness ==
    /\ pc = "returned"
    /\ detected_mode = "mode_5"
    /\ llm_calls > 0
    /\ \E d \in DOMAIN slides :
          /\ slides[d].is_exact
          /\ \E b \in DOMAIN slides[d].content :
                TextLen(slides[d].content[b].t) > MaxLen /\ ~slides[d].content[b].cut

\* C16: the bullet generator is never called during an ExactContent request;
\* during a MixedControl request it is called for the slides of generate blocks
\* only, once or twice for each of them, so not at all when no block says
\* "generate content"; and a slide on the exact branch holds no generated bullet.
C16_NoCallForExact ==
    /\ detected_mode = "mode_3" => llm_calls = 0
    /\ (detected_mode = "mode_5" /\ pc \in {"loop", "assembled", "returned"}) =>
          /\ GenerateSlidesBuilt <= llm_calls
          /\ llm_calls <= 2 * GenerateSlidesBuilt
          /\ ~Search("generate content", user_input) => llm_calls = 0
    /\ (detected_mode = "mode_5" /\ pc \in {"entry", "parse", "precheck"}) => llm_calls = 0

\* a returned MixedControl deck with an exact slide and one generate slide,
\* for which the bullet generator was called and called again
C16_Witness ==
    /\ pc = "returned"
    /\ detected_mode = "mode_5"
    /\ \E d \in DOMAIN slides : slides[d].is_exact
    /\ GenerateSlidesBuilt = 1
    /\ llm_calls = 2

\* C17: in an ImageControlled deck, after assembly and as returned, a user
\* slide has an image number only when the instruction says "Use Image i on
\* Slide n" for that slide and that number; no slide of a CustomTitles,
\* ExactContent or ImageControlled deck has an image query, the image-hint step
\* not being run on it, and no slide of the first two has an image number.
C17_NoAutoImages ==
    (pc \in {"assembled", "returned"} /\ detected_mode \in {"mode_2", "mode_3", "mode_4"}) =>
        \A d \in DOMAIN slides :
            /\ slides[d].image_query = ""
            /\ slides[d].image_number # 0 =>
                  /\ detected_mode = "mode_4"
                  /\ slides[d].slide_number > 1
                  /\ MapsImage(slides[d].image_number, slides[d].slide_number - 1)

\* a returned ImageControlled deck: one user slide with the image mapped to it,
\* and a slide titled as an introduction with no image and no query
C17_Witness ==
    /\ pc = "returned"
    /\ detected_mode = "mode_4"
    /\ \E d \in DOMAIN slides : slides[d].image_number # 0
    /\ \E d \in DOMAIN slides :
          /\ slides[d].slide_number > 1
          /\ In("intro", Lower(slides[d].title))
          /\ slides[d].image_number = 0
          /\ slides[d].image_query = ""

C19_AscendingUnique ==
    pc = "returned" =>
        /\ slides[1].slide_number = 1
        /\ \A d \in 1..(Len(slides) - 1) : slides[d].slide_number < slides[d + 1].slide_number

\* C20: a call without an instruction never ends in an error: it takes no
\* mode, makes one call of the text-generation service, and when that call
\* raises or its answer is not JSON the deck returned is the fallback deck:
\* the base slide and the slides "Key Concept i", i in 1..num_slides, numbered
\* i + 1, so num_slides + 1 slides in all.
C20_LegacyFallback ==
    user_input = <<>> =>
        /\ pc \in {"entry", "legacy", "fallback"}
        /\ error = NoError
        /\ detected_mode = "none"
        /\ \A answer \in LegacyAnswers :
              answer.kind # "json" =>
                  GenerateLegacy(call.topic, call.subject, call.num_slides, answer).pc = "fallback"
        /\ (pc # "entry" /\ failed_calls = llm_calls) => pc = "fallback"
        /\ pc = "fallback" =>
              /\ llm_calls = 1
              /\ Len(slides) = call.num_slides + 1
              /\ slides[1].slide_number = 1
              /\ slides[1].slide_type = "title"
              /\ slides[1].title = call.topic
              /\ \A i \in 1..call.num_slides :
                    /\ slides[i + 1].slide_number = i + 1
                    /\ slides[i + 1].title = KeyConcept(i)
                    /\ slides[i + 1].slide_type = "content"

\* the call of the text-generation service raised and the fallback deck of
\* MaxSlides + 1 slides is returned
C20_Witness ==
    /\ user_input = <<>>
    /\ pc = "fallback"
    /\ failed_calls = 1
    /\ call.num_slides = MaxSlides
    /\ Len(slides) = MaxSlides + 1

-----------------------------------------------------------------------------
\* the slides of the deck that carry an image query
HintedSlides == {i \in DOMAIN slides : slides[i].image_query # ""}

\* C21: the image-hint step leaves at most 3 slides of a deck with an image
\* query, the architecture-diagram query forced on the first content slide
\* included.
C21_AtMostThreeHints ==
    Cardinality(HintedSlides) <= MaxHints

\* C22: after the image-hint step every intro-like slide (type title, or a
\* title holding "intro") that carries a query carries the overview query.
C22_IntroGetsOverview ==
    \A i \in DOMAIN slides :
        (IntroLike(slides[i]) /\ slides[i].image_query # "") => slides[i].image_query = "overview"

-----------------------------------------------------------------------------
\* the slide is one that content-length shaping passes over
FlaggedExact(s) == detected_mode = "mode_5" /\ s.is_exact

\* the decks content-length shaping has been applied to
ShapedDeck == pc \in {"returned", "legacy"}

\* the limits every slide of a shaped deck keeps, unless flagged exact
WithinLimits ==
    ShapedDeck =>
        \A i \in DOMAIN slides :
            ~FlaggedExact(slides[i]) =>
                /\ Len(slides[i].content) <= MaxBullets
                /\ \A b \in DOMAIN slides[i].content :
                      LET line == slides[i].content[b]
                      IN  /\ LineLen(line) <= MaxLen
                          /\ line.cut <=> TextLen(line.t) > MaxLen
                          /\ line.t = Strip(line.t)

\* what shaping does to the deck the generator has assembled: no slide added
\* or removed, and a line of at most 140 characters kept but for its
\* surrounding white space
KeepsShortLines ==
    /\ pc = "assembled" =>
          LET shaped == EnforceBulletConstraints(slides, detected_mode = "mode_5")
          IN  /\ Len(shaped) = Len(slides)
              /\ \A i \in DOMAIN slides :
                    \A b \in DOMAIN slides[i].content :
                        (b <= MaxBullets /\ TextLen(Strip(slides[i].content[b].t)) <= MaxLen) =>
                            /\ b \in DOMAIN shaped[i].content
                            /\ shaped[i].content[b] = [slides[i].content[b] EXCEPT !.t = Strip(@)]
    /\ pc = "returned" => Len(slides) = cursor

\* C23 (as stated): after content-length shaping every slide not flagged
\* exact has at most 10 bullets of at most 140 characters; a longer bullet is
\* replaced by its first 137 characters followed by "...", a bullet of at most
\* 140 characters is kept but for surrounding white space, and no slide is
\* added or removed.
C23_CutAt137 ==
    /\ WithinLimits
    /\ KeepsShortLines
    /\ ShapedDeck =>
          \A i \in DOMAIN slides : \A b \in DOMAIN slides[i].content :
              (~FlaggedExact(slides[i]) /\ slides[i].content[b].cut) =>
                  LineLen(slides[i].content[b]) = (MaxLen - EllipsisLen) + EllipsisLen

\* C23 (amended): as above, but a longer bullet is replaced by its first 137
\* characters without their trailing white space, followed by "...": the
\* line that results has 139 or 140 characters.
C23_CutAndStripped ==
    /\ WithinLimits
    /\ KeepsShortLines
    /\ ShapedDeck =>
          \A i \in DOMAIN slides : \A b \in DOMAIN slides[i].content :
              (~FlaggedExact(slides[i]) /\ slides[i].content[b].cut) =>
                  /\ LineLen(slides[i].content[b]) >= MaxLen - 1
                  /\ LineLen(slides[i].content[b]) =
                        (IF (MaxLen - EllipsisLen - 1) \in WordEnds(slides[i].content[b].t)
                         THEN MaxLen - EllipsisLen - 1 ELSE MaxLen - EllipsisLen) + EllipsisLen

\* a returned deck with a line that was cut after a space
C23_Witness ==
    /\ pc = "returned"
    /\ \E i \in DOMAIN slides : \E b \in DOMAIN slides[i].content :
          /\ ~FlaggedExact(slides[i])
          /\ slides[i].content[b].cut
          /\ LineLen(slides[i].content[b]) = MaxLen - 1

-----------------------------------------------------------------------------
\* C24: for every slide it is asked to generate, the bullet generator returns
\* between 8 and 10 bullets (after one retry, or as the eight fallback
\* bullets).
C24_EightToTenBullets ==
    pc = "loop" =>
        \A i \in DOMAIN slides :
            Generates(parsed, Worklist(parsed)[i]) =>
                (Len(slides[i].content) >= 8 /\ Len(slides[i].content) <= MaxBullets)

-----------------------------------------------------------------------------
\* C25: no user slide of a returned MixedControl deck has an empty content
\* list; a titled block that declares exact content gives at least one bullet
\* or the extraction fails.
C25_NoEmptyMixedSlide ==
    (pc = "returned" /\ detected_mode = "mode_5") =>
        \A i \in DOMAIN slides : slides[i].content # <<>>

-----------------------------------------------------------------------------
\* C26: ImageControlled extraction yields a mapping for every "Use Image i on
\* Slide n" of the instruction, wherever it stands and whatever empty lines
\* separate the occurrences.
C26_EveryDirectiveMapped ==
    (detected_mode = "mode_4" /\ pc \notin {"entry", "parse", "failed"}) =>
        \A t \in DOMAIN user_input :
            user_input[t].k = "imgmap" =>
                \E k \in DOMAIN parsed.image_mappings :
                    /\ parsed.image_mappings[k].image_number = user_input[t].n
                    /\ parsed.image_mappings[k].slide_number = user_input[t].m

-----------------------------------------------------------------------------
\* C27: in the image mappings of an ImageControlled request and in the deck
\* built from them no image number is attached to two different slides.
C27_ImageUsedOnce ==
    (detected_mode = "mode_4" /\ pc \notin {"entry", "parse", "failed"}) =>
        /\ \A j, k \in DOMAIN parsed.image_mappings :
              parsed.image_mappings[j].image_number = parsed.image_mappings[k].image_number =>
                  parsed.image_mappings[j].slide_number = parsed.image_mappings[k].slide_number
        /\ \A a, b \in DOMAIN slides :
              (slides[a].image_number # 0 /\ slides[a].image_number = slides[b].image_number) => a = b

-----------------------------------------------------------------------------
\* C28: in every CustomTitles or ImageControlled deck that is returned the
\* slide numbers are exactly 1, 2, .., N + 1, each once: the accepted user
\* slide numbers are 1..N, the base slide is the only slide numbered 1 and
\* user slide k is numbered k + 1.
C28_DenseSlideNumbers ==
    (pc = "returned" /\ detected_mode \in {"mode_2", "mode_4"}) =>
        /\ Len(slides) = parsed.number + 1
        /\ \A i \in DOMAIN slides : slides[i].slide_number = i
        /\ \A k \in DOMAIN parsed.slide_titles : parsed.slide_titles[k].slide_number = k


\* the slides of the deck declared "No image": image intent None
LockedSlides == {i \in DOMAIN slides : Locked(slides[i])}

\* the image requests that name the slide at position i of the deck
RequestsFor(i) ==
    {k \in DOMAIN image_requests : image_requests[k].slide_number = slides[i].slide_number}

\* C29: a MixedControl slide declared "No image" carries no picture in the written
\* presentation and is left without image path, whatever the image requests and the
\* outcomes of the downloads and fetches were; the image steps and the writer end
\* without an error
C29_LockedSlideWrittenBare ==
    /\ pc \in {"returned", "requests_applied", "images_attached", "written"}
    /\ error = NoError
    /\ pc = "written" =>
          \A i \in LockedSlides : i \notin pictures /\ image_path[i] = ""

\* a locked slide that an image request named reached the writer with an image
\* path, which the writer took away, while another slide got its picture
C29_Witness ==
    /\ pc = "written"
    /\ \E i \in LockedSlides : i \in removed /\ RequestsFor(i) # {}
    /\ pictures # {}


\* C30: after any sequence of row-based timetable uploads no two events of the
\* store share an id
C30_UniqueEventIds ==
    \A i, j \in DOMAIN events : i # j => events[i].id # events[j].id

=============================================================================
